---------------------------- MODULE Spec2Model ----------------------------
(***************************************************************************)
(* Verification model of the imagelab receive pipeline                     *)
(* (server/app): the Hamming(7,4) and Reed-Solomon codecs, the chunk       *)
(* assembler, the channel noise engine and the upload orchestrator.        *)
(*                                                                         *)
(* The module holds several specifications over one set of variables:      *)
(*   SpecHamming  HammingCodec.encode / bit flips / HammingCodec.decode    *)
(*   SpecRS       ReedSolomonCodec.encode / lost shards / decode           *)
(*   SpecRSLen    ReedSolomonCodec.decode on shards of unequal lengths     *)
(*   SpecChunk    build_chunk_envelopes / ChunkAssembler                   *)
(*   SpecAsm      ChunkAssembler.add with data and parity envelopes        *)
(*   SpecNoise    NoiseEngine.apply on two engines with seeded PRNGs       *)
(*   SpecCipher   AESGCMCipher.encrypt / a changed byte / decrypt           *)
(*   SpecName     Storage._sanitize_filename applied once and again        *)
(*   SpecIngest   upload_chunk and upload_parity on one record             *)
(*   SpecJoin     the same calls on a record without RS, then the join     *)
(*   SpecDecrypt  finish_upload on encrypted uploads of every session id   *)
(*   SpecFecInit  upload_init with RS parameters of every order, finish    *)
(*   SpecDeliver  a payload cut into chunks, sent in any order, finished   *)
(*   SpecSse      SSEManager: subscribe, publish, consume, disconnect      *)
(*   Spec         the HTTP handlers of routes_upload.py on the event loop  *)
(*   SpecPair     the same handlers with two uploads open at once          *)
(* Each specification drives its own variables and leaves the others at    *)
(* their idle value.                                                       *)
(***************************************************************************)
EXTENDS Integers, Sequences, FiniteSets, TLC

VARIABLES
    hm,     \* Hamming harness: payload, encoded stream, channel flips, result
    rs,     \* Reed-Solomon harness: payload, shards, lost shards, result
    ck,     \* chunking harness: payload, built envelopes, assembler
    nz,     \* noise harness: two NoiseEngine objects, their PRNGs and runs
    cx,     \* cipher harness: an AESGCMCipher, a message and its ciphertext
    fn,     \* filename harness: a name and its passes through the sanitiser
    ig,     \* ingest harness: one record, the channel and the last reply
    sse,    \* SSE harness: an SSEManager, its subscribers and their queues
    uploads,    \* Storage._uploads: file_id -> UploadRecord
    handshakes, \* Storage._handshakes: the registered session ids
    noise,      \* NoiseEngine.config
    tasks,      \* the finish_upload coroutines: position and locals
    running,    \* the coroutine the event loop is running, or None
    disk,       \* the files under root/final: path -> bytes
    init_reply  \* the last upload_init call: request and response, or None

harness == <<hm, rs, ck, nz, cx, fn, ig, sse>>
appvars == <<uploads, handshakes, noise, tasks, running, disk, init_reply>>
vars == <<hm, rs, ck, nz, cx, fn, ig, sse, uploads, handshakes, noise, tasks, running, disk, init_reply>>

(***************************************************************************)
(* Bounds of the model.                                                    *)
(***************************************************************************)
\* longest byte string given to HammingCodec.encode
MaxHammingLen == 2
\* longest byte string given to ReedSolomonCodec.encode
MaxRSLen == 3
\* largest number of shards n of a ReedSolomonConfig
MaxRSN == 4
\* longest byte string given to build_chunk_envelopes
MaxChunkData == 4
\* longest file name given to Storage._sanitize_filename
MaxNameLen == 4
\* largest number of chunk and parity requests sent to one upload
MaxIngest == 3
\* largest chunk_size given to build_chunk_envelopes
MaxChunkSize == 3

(***************************************************************************)
(* Byte strings are sequences of integers 0..255.                          *)
(***************************************************************************)
SeqsUpTo(S, n) == UNION {[1..m -> S] : m \in 0..n}

Pow2(i) == 2 ^ i

\* a function over 1..n as a tuple with its elements evaluated
AsSeq(f) == <<>> \o f

\* value ^ mask for a mask with the single bit `index` set
FlipBit(value, index) ==
    IF (value \div Pow2(index)) % 2 = 1 THEN value - Pow2(index)
                                        ELSE value + Pow2(index)

(***************************************************************************)
(* fec.py: bit utilities                                                   *)
(***************************************************************************)
\* _parity(*bits): acc ^= bit & 1 over the arguments (a sequence here)
RECURSIVE Parity(_)
Parity(bits) ==
    IF bits = <<>> THEN 0
    ELSE ((Head(bits) % 2) + Parity(Tail(bits))) % 2

\* _bit(value, index): (value >> index) & 1
Bit(value, index) == (value \div Pow2(index)) % 2

(***************************************************************************)
(* fec.py: HammingCodec                                                    *)
(***************************************************************************)
\* HammingCodec._encode_nibble
EncodeNibble(nibble) ==
    LET d3 == Bit(nibble, 3)
        d2 == Bit(nibble, 2)
        d1 == Bit(nibble, 1)
        d0 == Bit(nibble, 0)
        p1 == Parity(<<d3, d2, d0>>)
        p2 == Parity(<<d3, d1, d0>>)
        p3 == Parity(<<d2, d1, d0>>)
    IN  p1 * 64 + p2 * 32 + d3 * 16 + p3 * 8 + d2 * 4 + d1 * 2 + d0

\* The index of the bit flipped for a non-zero syndrome: pos = syndrome - 1
SyndromePos(syndrome) == syndrome - 1

\* HammingCodec._decode_codeword: <<nibble, corrected, double_error>>
DecodeCodeword(code) ==
    LET bits == [i \in 0..6 |-> (code \div Pow2(6 - i)) % 2]
        s1 == Parity(<<bits[0], bits[2], bits[4], bits[6]>>)
        s2 == Parity(<<bits[1], bits[2], bits[5], bits[6]>>)
        s3 == Parity(<<bits[3], bits[4], bits[5], bits[6]>>)
        syndrome == s1 * 4 + s2 * 2 + s3
        pos == SyndromePos(syndrome)
        fix == syndrome # 0 /\ 0 <= pos /\ pos < 7
        corrected == IF fix THEN 1 ELSE 0
        double_error == IF syndrome # 0 /\ ~fix THEN 1 ELSE 0
        fixed == IF fix THEN [bits EXCEPT ![pos] = 1 - @] ELSE bits
        nibble == fixed[2] * 8 + fixed[4] * 4 + fixed[5] * 2 + fixed[6]
    IN  <<nibble, corrected, double_error>>

\* encode with the codeword of the low nibble first
RECURSIVE HammingEncode_lowfirst(_)
HammingEncode_lowfirst(payload) ==
    IF payload = <<>> THEN <<>>
    ELSE <<EncodeNibble(Head(payload) % 16),
           EncodeNibble((Head(payload) \div 16) % 16)>>
             \o HammingEncode_lowfirst(Tail(payload))

\* HammingCodec.encode: two codewords per byte, high nibble first
RECURSIVE HammingEncode(_)
HammingEncode(payload) ==
    IF payload = <<>> THEN <<>>
    ELSE LET byte == Head(payload)
             high == (byte \div 16) % 16
             low == byte % 16
         IN  <<EncodeNibble(high), EncodeNibble(low)>> \o HammingEncode(Tail(payload))

\* the loop of HammingCodec.decode over an even-length stream
RECURSIVE HammingDecodePairs(_)
HammingDecodePairs(payload) ==
    IF payload = <<>> THEN [data |-> <<>>, corrected |-> 0, double_error |-> 0]
    ELSE LET h == DecodeCodeword(payload[1])
             l == DecodeCodeword(payload[2])
             rest == HammingDecodePairs(SubSeq(payload, 3, Len(payload)))
         IN  [data |-> <<h[1] * 16 + l[1]>> \o rest.data,
              corrected |-> h[2] + l[2] + rest.corrected,
              double_error |-> h[3] + l[3] + rest.double_error]

\* decode without the length check: the last byte of an odd stream is left
HammingDecode_lenient(payload) ==
    LET r == HammingDecodePairs(SubSeq(payload, 1, 2 * (Len(payload) \div 2)))
    IN  [ok |-> TRUE, data |-> r.data,
         metrics |-> [corrected |-> r.corrected,
                      double_error |-> r.double_error]]

\* HammingCodec.decode: ValueError on an odd length, else bytes and metrics
HammingDecode(payload) ==
    IF Len(payload) % 2 = 1
    THEN [ok |-> FALSE, exc |-> "ValueError", kind |-> "INPUT_MALFORMED"]
    ELSE LET r == HammingDecodePairs(payload)
         IN  [ok |-> TRUE, data |-> r.data,
              metrics |-> [corrected |-> r.corrected,
                           double_error |-> r.double_error]]

(***************************************************************************)
(* Optional values (Python's None): None is the empty sequence and a       *)
(* present value x is <<x>>.                                               *)
(***************************************************************************)
None == <<>>
Some(x) == <<x>>
IsNone(o) == o = <<>>
Val(o) == o[1]

Max(a, b) == IF a >= b THEN a ELSE b
Min(a, b) == IF a <= b THEN a ELSE b

\* data[:n] of Python for n >= 0 (a negative n counts from the end)
Prefix(s, n) ==
    IF n >= 0 THEN SubSeq(s, 1, Min(n, Len(s)))
    ELSE SubSeq(s, 1, Max(Len(s) + n, 0))

(***************************************************************************)
(* The Reed-Solomon library behind ReedSolomonCodec (RSCodec(n - k)): a    *)
(* systematic RS code over GF(2^8), primitive polynomial 0x11d, generator  *)
(* element 2, first consecutive root 0, n - k parity symbols.              *)
(***************************************************************************)
RECURSIVE BitXor(_, _)
BitXor(a, b) ==
    IF a = 0 THEN b
    ELSE IF b = 0 THEN a
    ELSE ((a + b) % 2) + 2 * BitXor(a \div 2, b \div 2)

\* multiplication by the generator element 2, reduced by 0x11d
GFDouble(a) == IF 2 * a >= 256 THEN BitXor(2 * a, 285) ELSE 2 * a

\* carry-less multiplication reduced by 0x11d (shift and add)
RECURSIVE GFMulShift(_, _)
GFMulShift(a, b) ==
    IF a = 0 \/ b = 0 THEN 0
    ELSE IF b % 2 = 1 THEN BitXor(a, GFMulShift(GFDouble(a), b \div 2))
    ELSE GFMulShift(GFDouble(a), b \div 2)

GFSquare(a) == GFMulShift(a, a)

\* 2^i in GF(2^8)
RECURSIVE GFPowAlpha(_)
GFPowAlpha(i) ==
    IF i = 0 THEN 1
    ELSE IF i % 2 = 1 THEN GFDouble(GFPowAlpha(i - 1))
    ELSE GFSquare(GFPowAlpha(i \div 2))

\* GFExpTable[i + 1] = 2^i, i in 0..254 (a tuple, computed once)
GFExpTable == <<>> \o [i \in 1..255 |-> GFPowAlpha(i - 1)]

\* GFLogTable[v] = log_2 v, v in 1..255 (a tuple, computed once)
GFLogTable ==
    <<>> \o [v \in 1..255 |-> CHOOSE i \in 0..254 : GFExpTable[i + 1] = v]

GFAlpha(e) == GFExpTable[(e % 255) + 1]

GFMul(a, b) ==
    IF a = 0 \/ b = 0 THEN 0
    ELSE GFExpTable[((GFLogTable[a] + GFLogTable[b]) % 255) + 1]

GFDiv(a, b) ==
    IF a = 0 THEN 0
    ELSE GFExpTable[((GFLogTable[a] + 255 - GFLogTable[b]) % 255) + 1]

\* polynomials are coefficient sequences, highest degree first
RECURSIVE PolyEvalFrom(_, _, _)
PolyEvalFrom(p, x, acc) ==
    IF p = <<>> THEN acc
    ELSE PolyEvalFrom(Tail(p), x, BitXor(GFMul(acc, x), Head(p)))

PolyEval(p, x) == PolyEvalFrom(p, x, 0)

RECURSIVE XorRange(_, _, _)
\* f[lo] xor ... xor f[hi]
XorRange(f, lo, hi) ==
    IF lo > hi THEN 0 ELSE BitXor(f[lo], XorRange(f, lo + 1, hi))

PolyMul(p, q) ==
    AsSeq([j \in 1..(Len(p) + Len(q) - 1) |->
        LET lo == Max(1, j + 1 - Len(q))
            hi == Min(Len(p), j)
        IN  XorRange([i \in lo..hi |-> GFMul(p[i], q[j + 1 - i])], lo, hi)])

\* g(x) = (x - 2^0)(x - 2^1)...(x - 2^(nsym-1))
RECURSIVE RSGenerator(_)
RSGenerator(nsym) ==
    IF nsym = 0 THEN <<1>>
    ELSE PolyMul(RSGenerator(nsym - 1), <<1, GFAlpha(nsym - 1)>>)

\* synthetic division of buf by the monic gen, from coefficient i on
RECURSIVE PolyDivSteps(_, _, _, _)
PolyDivSteps(buf, gen, i, last) ==
    IF i > last THEN buf
    ELSE LET coef == buf[i]
             nxt == AsSeq([j \in 1..Len(buf) |->
                        IF j > i /\ j < i + Len(gen)
                        THEN BitXor(buf[j], GFMul(gen[j - i + 1], coef))
                        ELSE buf[j]])
         IN  PolyDivSteps(nxt, gen, i + 1, last)

\* RSCodec(nsym).encode(msg): msg followed by its nsym parity symbols
RSLibEncode(nsym, msg) ==
    LET gen == RSGenerator(nsym)
        buf == msg \o [j \in 1..nsym |-> 0]
        rem == PolyDivSteps(buf, gen, 1, Len(msg))
    IN  msg \o SubSeq(rem, Len(msg) + 1, Len(msg) + nsym)

\* the nsym syndromes of a received word: word(2^i), i in 0..nsym-1
RSSyndromes(nsym, word) ==
    AsSeq([i \in 1..nsym |-> PolyEval(word, GFAlpha(i - 1))])

IsCodeword(nsym, word) == \A i \in 1..nsym : RSSyndromes(nsym, word)[i] = 0

RECURSIVE PolyFromRoots(_)
\* the product of (x + r) over the roots r of a sequence
PolyFromRoots(roots) ==
    IF roots = <<>> THEN <<1>>
    ELSE PolyMul(PolyFromRoots(Tail(roots)), <<1, Head(roots)>>)

RECURSIVE SetToSeq(_)
SetToSeq(S) ==
    IF S = {} THEN <<>>
    ELSE LET x == CHOOSE y \in S : \A z \in S : y <= z
         IN  <<x>> \o SetToSeq(S \ {x})

\* the word with the symbols at the 0-based positions `errata` recomputed
\* from the first |errata| syndromes (the magnitudes Y solve
\* sum_m Y_m X_m^i = S_i, with X_m = 2^(n-1-m))
RSFillErrata(nsym, word, errata) ==
    LET nn == Len(word)
        e == Cardinality(errata)
        synd == RSSyndromes(nsym, word)
        X(m) == GFAlpha(nn - 1 - m)
        Others(m) == SetToSeq({X(j) : j \in errata \ {m}})
        Magnitude(m) ==
            LET pm == PolyFromRoots(Others(m))
                num == XorRange([i \in 1..e |-> GFMul(pm[e + 1 - i], synd[i])], 1, e)
            IN  GFDiv(num, PolyEval(pm, X(m)))
    IN  AsSeq([j \in 1..nn |->
            IF (j - 1) \in errata THEN BitXor(word[j], Magnitude(j - 1))
                                  ELSE word[j]])

\* RSCodec(nsym).decode(word, erase_pos): the codeword within the decoding
\* radius (2 * errors + erasures <= nsym) of the received word, else
\* ReedSolomonError; the result is the message part of the codeword
RSLibDecode(nsym, k, word, erase_pos) ==
    IF Cardinality(erase_pos) > nsym
    THEN [ok |-> FALSE, exc |-> "ReedSolomonError", kind |-> "UNMAPPED"]
    ELSE LET tmax == (nsym - Cardinality(erase_pos)) \div 2
             rest == (0..(Len(word) - 1)) \ erase_pos
             cands == {RSFillErrata(nsym, word, erase_pos \cup T) :
                          T \in {U \in SUBSET rest : Cardinality(U) <= tmax}}
             good == {c \in cands : IsCodeword(nsym, c)}
         IN  IF good = {}
             THEN [ok |-> FALSE, exc |-> "ReedSolomonError", kind |-> "UNMAPPED"]
             ELSE [ok |-> TRUE, data |-> SubSeq(CHOOSE c \in good : TRUE, 1, k)]

(***************************************************************************)
(* fec.py: ReedSolomonConfig and ReedSolomonCodec.  Shards are byte        *)
(* strings; a missing shard is None.                                       *)
(***************************************************************************)
\* ReedSolomonConfig.__post_init__: n > k and k > 0, else ValueError
RSConfigValid(n, k) == ~(n <= k) /\ ~(k <= 0)

\* shard_len of _split_data: max(1, ceil(len(data) / k))
RSShardLen(data, k) == Max(1, (Len(data) + k - 1) \div k)

\* _split_data cutting the data into k contiguous runs instead of
\* interleaving it (shard idx // shard_len, offset idx % shard_len)
RSSplitData_contiguous(data, k) ==
    AsSeq([sh \in 1..k |->
        AsSeq([off \in 1..RSShardLen(data, k) |->
            LET idx == (sh - 1) * RSShardLen(data, k) + (off - 1)
            IN  IF idx < Len(data) THEN data[idx + 1] ELSE 0])])

\* ReedSolomonCodec._split_data: byte idx goes to shard idx % k, offset idx // k
RSSplitData(data, k) ==
    AsSeq([sh \in 1..k |->
        AsSeq([off \in 1..RSShardLen(data, k) |->
            LET idx == (off - 1) * k + (sh - 1)
            IN  IF idx < Len(data) THEN data[idx + 1] ELSE 0])])

\* ReedSolomonCodec.encode: k data shards, then n - k parity shards
RSEncode(n, k, data) ==
    LET data_shards == RSSplitData(data, k)
        shard_len == Len(data_shards[1])
        Column(off) == AsSeq([sh \in 1..k |-> data_shards[sh][off]])
        encoded == AsSeq([off \in 1..shard_len |->
                             RSLibEncode(n - k, Column(off))])
        parity_shards ==
            AsSeq([p \in 1..(n - k) |->
                AsSeq([off \in 1..shard_len |-> encoded[off][k + p]])])
    IN  [shards |-> data_shards \o parity_shards,
         metrics |-> [n |-> n, k |-> k, input_bytes |-> Len(data),
                      shard_len |-> shard_len]]

\* the erase_pos of one column: the 0-based indices of the missing shards
RSErasePos(shards) == {idx \in 0..(Len(shards) - 1) : IsNone(shards[idx + 1])}

\* the guard with n in place of n - k: the library is asked to repair
\* what it cannot
RSTooManyErasures_n(n, k, erase_pos) == Cardinality(erase_pos) > n

\* the guard of decode: more erasures than n - k cannot be repaired
RSTooManyErasures(n, k, erase_pos) == Cardinality(erase_pos) > (n - k)

\* the column loop of ReedSolomonCodec.decode from offset `off` (0-based) on
RECURSIVE RSDecodeColumns(_, _, _, _, _, _)
RSDecodeColumns(n, k, shards, off, shard_len, acc) ==
    IF off >= shard_len
    THEN [ok |-> TRUE, columns |-> acc.columns, corrected |-> acc.corrected]
    ELSE IF \E i \in 1..Len(shards) :
                ~IsNone(shards[i]) /\ Len(Val(shards[i])) <= off
    THEN [ok |-> FALSE, exc |-> "IndexError", kind |-> "UNMAPPED"]
    ELSE LET column_symbols ==
                 AsSeq([i \in 1..Len(shards) |->
                     IF IsNone(shards[i]) THEN 0 ELSE Val(shards[i])[off + 1]])
             erase_pos == RSErasePos(shards)
         IN  IF RSTooManyErasures(n, k, erase_pos)
             THEN [ok |-> FALSE, exc |-> "ValueError", kind |-> "UNRECOVERABLE"]
             ELSE LET dec == RSLibDecode(n - k, k, column_symbols, erase_pos)
                  IN  IF ~dec.ok THEN dec
                      ELSE RSDecodeColumns(n, k, shards, off + 1, shard_len,
                               [columns |-> Append(acc.columns, dec.data),
                                corrected |-> acc.corrected
                                                + Cardinality(erase_pos)])

\* "Rebuild original bytes": column by column, shard 0..k-1 within a column
RECURSIVE RSRebuild(_, _)
RSRebuild(columns, k) ==
    IF columns = <<>> THEN <<>>
    ELSE SubSeq(Head(columns), 1, k) \o RSRebuild(Tail(columns), k)

\* bytes.rstrip(b"\x00")
RECURSIVE RStripZeros(_)
RStripZeros(s) ==
    IF s = <<>> THEN s
    ELSE IF s[Len(s)] = 0 THEN RStripZeros(SubSeq(s, 1, Len(s) - 1))
    ELSE s

\* "if expected_len:" for "if expected_len is not None:": 0 counts as absent
RSTrim_truthy(result, expected_len) ==
    IF ~IsNone(expected_len) /\ Val(expected_len) # 0
    THEN Prefix(result, Val(expected_len))
    ELSE RStripZeros(result)

\* result[:expected_len] when expected_len is given, else rstrip of zeros
RSTrim(result, expected_len) ==
    IF ~IsNone(expected_len) THEN Prefix(result, Val(expected_len))
                             ELSE RStripZeros(result)

\* the first non-null shard of the input (present[0])
RSFirstPresent(shards) ==
    Val(shards[CHOOSE i \in 1..Len(shards) :
                  /\ ~IsNone(shards[i])
                  /\ \A j \in 1..(i - 1) : IsNone(shards[j])])

\* ReedSolomonCodec.decode(shards, expected_len)
RSDecode(n, k, shards, expected_len) ==
    IF Len(shards) # n
    THEN [ok |-> FALSE, exc |-> "ValueError", kind |-> "INPUT_MALFORMED"]
    ELSE IF \A i \in 1..Len(shards) : IsNone(shards[i])
    THEN [ok |-> FALSE, exc |-> "ValueError", kind |-> "INPUT_MALFORMED"]
    ELSE LET shard_len == Len(RSFirstPresent(shards))
             cols == RSDecodeColumns(n, k, shards, 0, shard_len,
                                     [columns |-> <<>>, corrected |-> 0])
         IN  IF ~cols.ok THEN cols
             ELSE [ok |-> TRUE,
                   data |-> RSTrim(RSRebuild(cols.columns, k), expected_len),
                   metrics |-> [corrected |-> cols.corrected, n |-> n, k |-> k]]

(***************************************************************************)
(* chunking.py: ChunkEnvelope, build_chunk_envelopes, ChunkAssembler.      *)
(* A dict is a sequence of envelopes with distinct sequence numbers, in    *)
(* insertion order (assigning to a key that exists keeps its place).       *)
(***************************************************************************)
\* ChunkEnvelope(chunk_id, sequence, payload, is_parity, fec_index,
\*               total_chunks, metadata)
ChunkEnvelope(chunk_id, sequence, payload, is_parity, fec_index, total_chunks, metadata) ==
    [chunk_id |-> chunk_id, sequence |-> sequence, payload |-> payload,
     is_parity |-> is_parity, fec_index |-> fec_index,
     total_chunks |-> total_chunks, metadata |-> metadata]

\* an empty metadata dict: no key is present
NoMeta == [key \in {} |-> 0]

\* count = (len(data) + chunk_size - 1) // chunk_size or 1
ChunkCount(data, chunk_size) ==
    LET c == (Len(data) + chunk_size - 1) \div chunk_size
    IN  IF c = 0 THEN 1 ELSE c

\* data[start : start + chunk_size] for a 0-based start
Slice(data, start, size) ==
    SubSeq(data, start + 1, Min(start + size, Len(data)))

\* build_chunk_envelopes(chunk_id, data, chunk_size) for chunk_size > 0
BuildChunkEnvelopes(chunk_id, data, chunk_size) ==
    LET count == ChunkCount(data, chunk_size)
    IN  AsSeq([i \in 1..count |->
            ChunkEnvelope(chunk_id, i - 1,
                          Slice(data, (i - 1) * chunk_size, chunk_size),
                          FALSE, None, Some(count), NoMeta)])

\* the keys of a dict
DictKeys(d) == {d[i].sequence : i \in 1..Len(d)}

\* d.setdefault(envelope.sequence, envelope): the first envelope stays
DictPut_keepfirst(d, envelope) ==
    IF envelope.sequence \in DictKeys(d) THEN d ELSE Append(d, envelope)

\* d[envelope.sequence] = envelope
DictPut(d, envelope) ==
    IF envelope.sequence \in DictKeys(d)
    THEN AsSeq([i \in 1..Len(d) |->
                   IF d[i].sequence = envelope.sequence THEN envelope ELSE d[i]])
    ELSE Append(d, envelope)

\* ChunkAssembler(chunk_id)
NewAssembler(chunk_id) ==
    [chunk_id |-> chunk_id, chunks |-> <<>>, parity |-> <<>>, expected |-> None]

\* the methods and properties class ChunkAssembler defines
AssemblerMethods ==
    {"add", "expected", "missing_sequences", "has_all_data",
     "data_envelopes", "parity_envelopes", "reassemble"}

\* assembler.<name> raises AttributeError for a name the class lacks
AssemblerLacks(name) == name \notin AssemblerMethods

\* ChunkAssembler.add raises ValueError for an envelope of another upload
AddRaises(asm, envelope) == envelope.chunk_id # asm.chunk_id

\* add with one target for both kinds: target = self._chunks
AssemblerAdd_shared(asm, envelope) ==
    [asm EXCEPT !.expected = IF ~IsNone(envelope.total_chunks)
                             THEN envelope.total_chunks ELSE asm.expected,
                !.chunks = DictPut(asm.chunks, envelope)]

\* ChunkAssembler.add(envelope), when it does not raise
AssemblerAdd(asm, envelope) ==
    LET expected == IF ~IsNone(envelope.total_chunks) THEN envelope.total_chunks
                                                      ELSE asm.expected
    IN  IF envelope.is_parity
        THEN [asm EXCEPT !.expected = expected,
                         !.parity = DictPut(asm.parity, envelope)]
        ELSE [asm EXCEPT !.expected = expected,
                         !.chunks = DictPut(asm.chunks, envelope)]

\* ChunkAssembler.missing_sequences(): sorted list of the absent sequences
MissingSequences(asm) ==
    IF IsNone(asm.expected) THEN <<>>
    ELSE SetToSeq({seq \in 0..(Val(asm.expected) - 1) :
                      seq \notin DictKeys(asm.chunks)})

\* ChunkAssembler.has_all_data()
HasAllData(asm) ==
    IF IsNone(asm.expected) THEN FALSE
    ELSE Len(asm.chunks) >= Val(asm.expected)

\* the envelopes left in insertion order (no sort before the join)
SortBySequence_unsorted(d) == d

\* the envelopes of a dict sorted by sequence (keys are distinct)
RECURSIVE SortBySequence(_)
SortBySequence(d) ==
    IF d = <<>> THEN <<>>
    ELSE LET i == CHOOSE j \in 1..Len(d) :
                      \A m \in 1..Len(d) : d[j].sequence <= d[m].sequence
         IN  <<d[i]>> \o SortBySequence(AsSeq([m \in 1..(Len(d) - 1) |->
                                          IF m < i THEN d[m] ELSE d[m + 1]]))

RECURSIVE JoinPayloads(_)
\* b"".join(env.payload for env in envelopes)
JoinPayloads(envelopes) ==
    IF envelopes = <<>> THEN <<>>
    ELSE Head(envelopes).payload \o JoinPayloads(Tail(envelopes))

\* reassemble_from_envelopes(envelopes)
ReassembleFromEnvelopes(envelopes) == JoinPayloads(SortBySequence(envelopes))

\* ChunkAssembler.reassemble(): ValueError unless has_all_data()
Reassemble(asm) ==
    IF ~HasAllData(asm)
    THEN [ok |-> FALSE, exc |-> "ValueError", kind |-> "INCOMPLETE"]
    ELSE [ok |-> TRUE, data |-> ReassembleFromEnvelopes(asm.chunks)]

(***************************************************************************)
(* The upload orchestrator: models.py, storage.py, noise.py and            *)
(* routes_upload.py.  The requests the clients send are drawn from the     *)
(* small sets below.                                                       *)
(***************************************************************************)
\* the file id uuid4 gives to a new upload
FileIds == {"f1"}

\* the session id a handshake registers
SessionIds == {"s1"}

\* the frames of finish_upload coroutines that can be alive at once
Tasks == {"t1", "t2"}

\* PipelineSettings: FECSettings, CompressionSettings, EncryptionSettings
PipelineSettings(mode, n, k, compress, algorithm, encrypt) ==
    [fec |-> [mode |-> mode, n |-> n, k |-> k],
     compression |-> [enabled |-> compress, algorithm |-> algorithm],
     encryption |-> [enabled |-> encrypt, session_id |-> None]]

\* the pipelines of the init requests: the defaults (FEC off), Hamming,
\* RS(2,1), encryption, raw DEFLATE, gzip, and an algorithm name that is
\* not a CompressionAlgo on a pipeline with compression disabled
Pipelines ==
    {PipelineSettings("off", 120, 100, FALSE, "deflate", FALSE),
     PipelineSettings("hamming", 120, 100, FALSE, "deflate", FALSE),
     PipelineSettings("rs", 2, 1, FALSE, "deflate", FALSE),
     PipelineSettings("off", 120, 100, FALSE, "deflate", TRUE),
     PipelineSettings("off", 120, 100, TRUE, "deflate", FALSE),
     PipelineSettings("off", 120, 100, TRUE, "gzip", FALSE),
     PipelineSettings("off", 120, 100, FALSE, "lz4", FALSE)}

\* the file name of the init requests, "../a b.png" (a file name is the
\* sequence of its characters)
Filenames == {<<".", ".", "/", "a", " ", "b", ".", "p", "n", "g">>}

\* UploadInitRequest: a session id comes with the encrypted pipeline only
InitRequests ==
    {r \in [filename : Filenames, pipeline : Pipelines,
            session_id : {None} \cup {Some(s) : s \in SessionIds}] :
        ~IsNone(r.session_id) => r.pipeline.encryption.enabled}

\* the init requests that upload_init accepts: with a session id when the
\* pipeline encrypts
AcceptedInitRequests ==
    {r \in InitRequests : r.pipeline.encryption.enabled => ~IsNone(r.session_id)}

\* the payloads of the chunk requests, one byte each
Payloads == {<<1>>, <<65>>}

\* a metadata value: the integer n is <<"int", n>>, a string that is not a
\* decimal number is <<"str", s>>
MetaInt(n) == <<"int", n>>

\* the meta dicts of the chunk requests
MetaChoices ==
    {NoMeta} \cup {[key \in {"original_size"} |-> v] :
                      v \in {MetaInt(1), <<"str", "x">>}}

\* ChunkRequest: two sequences per upload; metadata travels with data
\* envelope 0, parity with sequence 1
ChunkRequests ==
    {r \in [file_id : FileIds, sequence : {0, 1}, total_sequences : {2},
            payload : Payloads, is_parity : BOOLEAN, fec_index : {None},
            meta : MetaChoices] :
        /\ r.meta # NoMeta => (r.sequence = 0 /\ ~r.is_parity)
        /\ r.is_parity => r.sequence = 1}

\* the requests sent to /parity: the flag is_parity of the request is free
ParityRequests == {r \in ChunkRequests : r.sequence = 1 /\ r.meta = NoMeta}

\* _envelope_from_request(req)
EnvelopeFromRequest(req) ==
    ChunkEnvelope(req.file_id, req.sequence, req.payload, req.is_parity,
                  req.fec_index, Some(req.total_sequences), req.meta)

(***************************************************************************)
(* noise.py.  Probabilities and the draws of random.random() are in        *)
(* percent: a draw d is below a probability p when d < p.                  *)
(***************************************************************************)
\* NoiseConfig(): all probabilities 0
NoiseConfig(loss, ber, duplicate, reorder) ==
    [loss |-> loss, ber |-> ber, duplicate |-> duplicate, reorder |-> reorder]

\* _clamp(value, 0.0, 1.0)
Clamp(value) == Max(0, Min(value, 100))

\* NoiseConfig.clamp()
ClampConfig(cfg) ==
    NoiseConfig(Clamp(cfg.loss), Clamp(cfg.ber), Clamp(cfg.duplicate),
                Clamp(cfg.reorder))

\* the configurations the clients request: a clean channel (given as
\* negative probabilities) and a channel with every probability at 50%
NoiseRequests == {NoiseConfig(-50, -50, -50, -50), NoiseConfig(50, 50, 50, 50)}

\* the outcomes of random.random()
Draws == {0, 99}

\* the bits of a payload whose draw can fall below ber: bit 6 of byte 0
\* (every other bit draws above it)
NoisyBits == {<<0, 6>>}

\* value with every bit of `bits` flipped
RECURSIVE FlipBits(_, _)
FlipBits(value, bits) ==
    IF bits = {} THEN value
    ELSE LET b == CHOOSE x \in bits : TRUE
         IN  FlipBits(FlipBit(value, b), bits \ {b})

\* payload[byte_idx] ^= (1 << bit_idx) for the <<byte_idx, bit_idx>> of flips
FlipPayload(payload, flips) ==
    AsSeq([i \in 1..Len(payload) |->
        FlipBits(payload[i], {b[2] : b \in {x \in flips : x[1] = i - 1}})])

\* NoiseEngine.apply([env]) for one choice of the draws: the loss draw, the
\* draws of the noisy bits, the duplicate draw and the reorder draw
NoiseApplyDraws(cfg, env, dloss, dbits, ddup, dreorder) ==
    IF dloss < cfg.loss
    THEN [processed |-> <<>>,
          stats |-> [loss |-> 1, bit_flips |-> 0, duplicate |-> 0,
                     reordered |-> 0, input |-> 1, output |-> 0]]
    ELSE LET flips == {b \in NoisyBits :
                          b[1] < Len(env.payload) /\ dbits[b] < cfg.ber}
             mutated == [env EXCEPT !.payload = FlipPayload(env.payload, flips)]
             dup == ddup < cfg.duplicate
             processed == IF dup THEN <<mutated, mutated>> ELSE <<mutated>>
         IN  [processed |-> processed,
              stats |-> [loss |-> 0, bit_flips |-> Cardinality(flips),
                         duplicate |-> IF dup THEN 1 ELSE 0,
                         reordered |-> IF dreorder < cfg.reorder THEN 1 ELSE 0,
                         input |-> 1, output |-> Len(processed)]]

\* every result NoiseEngine.apply([env]) can give under cfg (a shuffle of
\* the one envelope, or of the envelope and its duplicate, changes nothing)
NoiseApply(cfg, env) ==
    {NoiseApplyDraws(cfg, env, dloss, dbits, ddup, dreorder) :
        dloss \in Draws, dbits \in [NoisyBits -> Draws],
        ddup \in Draws, dreorder \in Draws}

(***************************************************************************)
(* NoiseEngine.apply on a list of envelopes, with the draws taken from a   *)
(* generator.  random.Random is modelled as a linear congruential         *)
(* generator of RngModulus states: a state gives the next draw and the    *)
(* next state.                                                             *)
(***************************************************************************)
\* the number of states of the generator
RngModulus == 16

\* the state after one draw
RngNext(state) == (5 * state + 3) % RngModulus

\* random.seed(seed): the state a seed gives
RngSeed(seed) == (seed * 7 + 1) % RngModulus

\* random(): the draw in percent and the state after it
RngRandom(state) ==
    [value |-> (RngNext(state) * 100) \div RngModulus, state |-> RngNext(state)]

\* randbelow(n): a draw in 0..n-1 and the state after it
RngBelow(state, n) ==
    [value |-> (RngNext(state) * n) \div RngModulus, state |-> RngNext(state)]

\* stats at the start of apply
NoiseZeroStats ==
    [loss |-> 0, bit_flips |-> 0, duplicate |-> 0, reordered |-> 0,
     input |-> 0, output |-> 0]

\* the loops over byte_idx and bit_idx, from bit k = 8 * byte_idx + bit_idx
\* on: acc is the payload, the generator state and the flips so far
RECURSIVE NoiseFlipLoop(_, _, _)
NoiseFlipLoop(ber, k, acc) ==
    IF k >= 8 * Len(acc.payload) THEN acc
    ELSE LET Step(d) ==
                 IF d.value < ber
                 THEN [payload |-> [acc.payload EXCEPT
                                       ![(k \div 8) + 1] = FlipBit(@, k % 8)],
                       rng |-> d.state, bit_flips |-> acc.bit_flips + 1]
                 ELSE [acc EXCEPT !.rng = d.state]
         IN  NoiseFlipLoop(ber, k + 1, Step(RngRandom(acc.rng)))

\* a lost envelope counted under loss only
NoiseLost_uncounted(stats) == [stats EXCEPT !.loss = @ + 1]

\* stats["input"] += 1; stats["loss"] += 1 for a lost envelope
NoiseLost(stats) == [stats EXCEPT !.input = @ + 1, !.loss = @ + 1]

\* one round of the loop of apply: acc is processed, stats and the
\* generator state
NoiseEnvelope(cfg, env, acc) ==
    LET Emit(flipped, d) ==
            LET mutated == [env EXCEPT !.payload = flipped.payload]
                dup == d.value < cfg.duplicate
            IN  [processed |-> IF dup
                               THEN acc.processed \o <<mutated, mutated>>
                               ELSE Append(acc.processed, mutated),
                 stats |-> [acc.stats EXCEPT
                               !.input = @ + 1,
                               !.bit_flips = @ + flipped.bit_flips,
                               !.duplicate = IF dup THEN @ + 1 ELSE @],
                 rng |-> d.state]
        Flip(flipped) == Emit(flipped, RngRandom(flipped.rng))
        Round(d) ==
            IF d.value < cfg.loss
            THEN [acc EXCEPT !.stats = NoiseLost(@), !.rng = d.state]
            ELSE Flip(NoiseFlipLoop(cfg.ber, 0,
                                    [payload |-> env.payload, rng |-> d.state,
                                     bit_flips |-> 0]))
    IN  Round(RngRandom(acc.rng))

\* for env in envelopes: ...
RECURSIVE NoiseLoop(_, _, _)
NoiseLoop(cfg, envelopes, acc) ==
    IF envelopes = <<>> THEN acc
    ELSE NoiseLoop(cfg, Tail(envelopes), NoiseEnvelope(cfg, Head(envelopes), acc))

\* x[i], x[j] = x[j], x[i] for 1-based i and j
Swap(x, i, j) == [x EXCEPT ![i] = x[j], ![j] = x[i]]

\* random.shuffle(x): for i in reversed(range(1, len(x))):
\* j = randbelow(i + 1); x[i], x[j] = x[j], x[i]
RECURSIVE Shuffle(_, _, _)
Shuffle(x, i, state) ==
    IF i < 1 THEN [list |-> x, state |-> state]
    ELSE LET Step(d) == Shuffle(Swap(x, i + 1, d.value + 1), i - 1, d.state)
         IN  Step(RngBelow(state, i + 1))

\* NoiseEngine.apply(envelopes) under cfg with the generator in `state`:
\* the list returned, the stats and the state of the generator afterwards
NoiseEngineApply(cfg, envelopes, state) ==
    LET Done(processed, reordered, after) ==
            [processed |-> processed, state |-> after,
             stats |-> [reordered EXCEPT !.output = Len(processed)]]
        Shuffled(acc, s) ==
            Done(s.list, [acc.stats EXCEPT !.reordered = 1], s.state)
        Reorder(acc, d) ==
            IF d.value < cfg.reorder
            THEN Shuffled(acc, Shuffle(acc.processed, Len(acc.processed) - 1,
                                       d.state))
            ELSE Done(acc.processed, acc.stats, d.state)
        Finish(acc) ==
            IF acc.processed = <<>>
            THEN Done(acc.processed, acc.stats, acc.rng)
            ELSE Reorder(acc, RngRandom(acc.rng))
    IN  Finish(NoiseLoop(cfg, envelopes,
                         [processed |-> <<>>, stats |-> NoiseZeroStats,
                          rng |-> state]))

(***************************************************************************)
(* storage.py and the helpers of routes_upload.py.  A dict is a function   *)
(* from its keys to their values.                                          *)
(***************************************************************************)
\* d[key] = value
DictSet(d, key, value) ==
    [x \in DOMAIN d \cup {key} |-> IF x = key THEN value ELSE d[x]]

\* d.get(key)
DictGet(d, key) == IF key \in DOMAIN d THEN Some(d[key]) ELSE None

\* an empty stage_metrics dict
NoMetrics == [stage \in {} |-> 0]

\* UploadRecord(file_id, filename, pipeline, handshake_session_id)
UploadRecord(file_id, request) ==
    [file_id |-> file_id, filename |-> request.filename,
     pipeline |-> request.pipeline,
     handshake_session_id |-> request.session_id,
     assembler |-> NewAssembler(file_id),
     stage_metrics |-> NoMetrics, meta |-> NoMeta, final_path |-> None]

\* the metrics land in record.meta
SetStageMetrics_meta(record, stage, metrics) ==
    [record EXCEPT !.meta = DictSet(@, stage, metrics)]

\* record.stage_metrics.setdefault(stage, metrics)
SetStageMetrics_keep(record, stage, metrics) ==
    IF stage \in DOMAIN record.stage_metrics THEN record
    ELSE [record EXCEPT !.stage_metrics = DictSet(@, stage, metrics)]

\* Storage.set_stage_metrics(record, stage, metrics)
SetStageMetrics(record, stage, metrics) ==
    [record EXCEPT !.stage_metrics = DictSet(@, stage, metrics)]

\* upload_init without the check of the session id
InitRejected_never(payload) == FALSE

\* upload_init refuses an encrypted pipeline without a session id
InitRejected(payload) ==
    /\ payload.pipeline.encryption.enabled
    /\ (IsNone(payload.session_id) \/ Val(payload.session_id) = "")

\* the init stage metrics of upload_init
InitMetrics(payload) ==
    [filename |-> payload.filename,
     compression_enabled |-> payload.pipeline.compression.enabled,
     compression_algorithm |-> payload.pipeline.compression.algorithm,
     encryption_enabled |-> payload.pipeline.encryption.enabled,
     fec_mode |-> payload.pipeline.fec.mode,
     fec_n |-> payload.pipeline.fec.n, fec_k |-> payload.pipeline.fec.k]

\* record.meta[key] = value whatever the dict holds
MetaSetDefault_overwrite(meta, key, value) == DictSet(meta, key, value)

\* record.meta.setdefault(key, value)
MetaSetDefault(meta, key, value) ==
    IF key \in DOMAIN meta THEN meta ELSE DictSet(meta, key, value)

\* for meta_key, meta_value in item.metadata.items(): setdefault
RECURSIVE MergeMetadata(_, _, _)
MergeMetadata(meta, metadata, keys) ==
    IF keys = {} THEN meta
    ELSE LET key == CHOOSE x \in keys : TRUE
         IN  MergeMetadata(MetaSetDefault(meta, key, metadata[key]),
                           metadata, keys \ {key})

\* the loop of _apply_noise_and_store over the envelopes the noise engine
\* returned: merge the metadata, then Storage.store_chunk
RECURSIVE StoreProcessed(_, _)
StoreProcessed(record, processed) ==
    IF processed = <<>> THEN record
    ELSE LET item == Head(processed)
             merged == MergeMetadata(record.meta, item.metadata,
                                     DOMAIN item.metadata)
         IN  StoreProcessed([record EXCEPT
                                !.meta = merged,
                                !.assembler = AssemblerAdd(@, item)],
                            Tail(processed))

\* stats_aggregate of _apply_noise_and_store for one envelope: the stats
\* of the one engine.apply call added to zeros, then
\* stats_aggregate["output"] = len(processed)
AggregateStats(out) ==
    [loss |-> 0 + out.stats.loss, bit_flips |-> 0 + out.stats.bit_flips,
     duplicate |-> 0 + out.stats.duplicate,
     reordered |-> 0 + out.stats.reordered,
     input |-> 0 + out.stats.input, output |-> Len(out.processed)]

\* idx = env.fec_index if env.fec_index is not None else env.sequence
ShardSlot(env) ==
    IF ~IsNone(env.fec_index) THEN Val(env.fec_index) ELSE env.sequence

\* for env in envelopes: if 0 <= idx < n: shards[idx] = env.payload
RECURSIVE PlaceShards(_, _, _)
PlaceShards(shards, envelopes, n) ==
    IF envelopes = <<>> THEN shards
    ELSE LET env == Head(envelopes)
             idx == ShardSlot(env)
         IN  PlaceShards(IF 0 <= idx /\ idx < n
                         THEN [shards EXCEPT ![idx + 1] = Some(env.payload)]
                         ELSE shards,
                         Tail(envelopes), n)

\* _collect_shards without "if not ordered: return []": b"".join of no
\* payloads is one empty slot
CollectShards_alwaysjoin(record) ==
    IF record.pipeline.fec.mode = "rs"
    THEN LET n == record.pipeline.fec.n
         IN  PlaceShards(PlaceShards(AsSeq([i \in 1..n |-> None]),
                                     record.assembler.chunks, n),
                         record.assembler.parity, n)
    ELSE <<Some(JoinPayloads(SortBySequence(record.assembler.chunks)))>>

\* _collect_shards with the parity loop before the data loop
CollectShards_parityfirst(record) ==
    IF record.pipeline.fec.mode = "rs"
    THEN LET n == record.pipeline.fec.n
         IN  PlaceShards(PlaceShards(AsSeq([i \in 1..n |-> None]),
                                     record.assembler.parity, n),
                         record.assembler.chunks, n)
    ELSE LET ordered == SortBySequence(record.assembler.chunks)
         IN  IF ordered = <<>> THEN <<>>
             ELSE <<Some(JoinPayloads(ordered))>>

\* _collect_shards(record)
CollectShards(record) ==
    IF record.pipeline.fec.mode = "rs"
    THEN LET n == record.pipeline.fec.n
         IN  PlaceShards(PlaceShards(AsSeq([i \in 1..n |-> None]),
                                     record.assembler.chunks, n),
                         record.assembler.parity, n)
    ELSE LET ordered == SortBySequence(record.assembler.chunks)
         IN  IF ordered = <<>> THEN <<>>
             ELSE <<Some(JoinPayloads(ordered))>>

\* truth value of a metadata value: 0 and "" are false
Truthy(v) == IF v[1] = "int" THEN v[2] # 0 ELSE v[2] # ""

\* a or b, for the results of two meta.get calls
MetaOr(a, b) == IF ~IsNone(a) /\ Truthy(Val(a)) THEN a ELSE b

\* int(value) under try/except (TypeError, ValueError): None when the value
\* is absent or does not parse
ParseInt(o) ==
    IF IsNone(o) THEN None
    ELSE IF Val(o)[1] = "int" THEN Some(Val(o)[2]) ELSE None

\* expected_len of finish_upload
ExpectedLen(meta) ==
    ParseInt(MetaOr(DictGet(meta, "rs_expected_len"),
                    DictGet(meta, "encrypted_size")))

\* metrics["mode"] = mode
WithMode(metrics, mode) == DictSet(metrics, "mode", mode)

\* fec_decode_bytes(data, mode, rs_config, expected_len)
FecDecodeBytes(data, mode, n, k, expected_len) ==
    IF mode = "off"
    THEN IF Len(data) # 1 \/ IsNone(data[1])
         THEN [ok |-> FALSE, exc |-> "ValueError", kind |-> "INPUT_MALFORMED"]
         ELSE [ok |-> TRUE, data |-> Val(data[1]),
               metrics |-> [mode |-> "off"]]
    ELSE LET Tagged(r) ==
                 IF ~r.ok THEN r
                 ELSE [r EXCEPT !.metrics = WithMode(r.metrics, mode)]
         IN  IF mode = "hamming"
             THEN Tagged(HammingDecode(IF IsNone(data[1]) THEN <<>>
                                       ELSE Val(data[1])))
             ELSE IF mode = "rs"
             THEN Tagged(RSDecode(n, k, data, expected_len))
             ELSE [ok |-> FALSE, exc |-> "ValueError",
                   kind |-> "INPUT_MALFORMED"]

\* the FEC stage of finish_upload (the body of its first try block)
FecStage(record, shards) ==
    LET fec == record.pipeline.fec
    IN  IF fec.mode = "rs" /\ ~RSConfigValid(fec.n, fec.k)
        THEN [ok |-> FALSE, exc |-> "ValueError", kind |-> "INPUT_MALFORMED"]
        ELSE FecDecodeBytes(shards, fec.mode, fec.n, fec.k,
                            ExpectedLen(record.meta))

(***************************************************************************)
(* The AEAD behind AESGCMCipher (cryptography's AESGCM), at the scale of   *)
(* the model: the body is the plaintext masked with a key byte, followed   *)
(* by a one-byte tag over the key, the nonce and the body.                 *)
(***************************************************************************)
RECURSIVE SumBytes(_)
SumBytes(s) == IF s = <<>> THEN 0 ELSE Head(s) + SumBytes(Tail(s))

AeadMask(key, body) == AsSeq([i \in 1..Len(body) |-> BitXor(body[i], key)])

\* the nonce is a byte string
AeadTag(key, nonce, body) == (key + SumBytes(nonce) + SumBytes(body)) % 256

\* AESGCM(key).encrypt(nonce, payload, None)
AeadEncrypt(key, nonce, payload) ==
    LET body == AeadMask(key, payload)
    IN  Append(body, AeadTag(key, nonce, body))

\* AESGCM(key).decrypt(nonce, payload, None): InvalidTag unless the tag fits
AeadDecrypt(key, nonce, payload) ==
    IF payload = <<>>
    THEN [ok |-> FALSE, exc |-> "InvalidTag", kind |-> "CRYPTO_AUTH_FAILED"]
    ELSE LET body == SubSeq(payload, 1, Len(payload) - 1)
         IN  IF payload[Len(payload)] # AeadTag(key, nonce, body)
             THEN [ok |-> FALSE, exc |-> "InvalidTag",
                   kind |-> "CRYPTO_AUTH_FAILED"]
             ELSE [ok |-> TRUE, data |-> AeadMask(key, body)]

(***************************************************************************)
(* crypto.py                                                               *)
(***************************************************************************)
\* A 96-bit integer is its bytes, most significant first; nonce_base may
\* come with more bytes than twelve.
\* the number of bytes of a nonce: to_bytes(12, "big")
NonceBytes == 12

\* the nonce_base 0
ZeroNonce == AsSeq([i \in 1..NonceBytes |-> 0])

\* value & ((1 << 96) - 1): the low twelve bytes of value
Mask96(value) ==
    IF Len(value) >= NonceBytes
    THEN SubSeq(value, Len(value) - NonceBytes + 1, Len(value))
    ELSE AsSeq([i \in 1..(NonceBytes - Len(value)) |-> 0]) \o value

\* (value + addend) & ((1 << 96) - 1) for twelve bytes and a Python int:
\* the sum byte by byte from the least significant one, the carry out of
\* the most significant byte dropped
RECURSIVE AddMask96(_, _)
AddMask96(value, addend) ==
    IF value = <<>> THEN <<>>
    ELSE LET sum == value[Len(value)] + addend
         IN  Append(AddMask96(SubSeq(value, 1, Len(value) - 1), sum \div 256),
                    sum % 256)

\* the HandshakeContext generate_server_handshake builds for a session
HandshakeContext(session_id) ==
    [session_id |-> session_id, aes_key |-> 64, nonce_base |-> ZeroNonce]

\* AESGCMCipher(key, nonce_base): self.nonce_base = nonce_base & (2^96 - 1)
NewCipher(key, nonce_base) == [key |-> key, nonce_base |-> Mask96(nonce_base)]

\* _nonce_for with the sequence added to the last byte only
NonceFor_lowbyte(nonce_base, sequence) ==
    [nonce_base EXCEPT ![NonceBytes] = (@ + sequence) % 256]

\* AESGCMCipher._nonce_for(sequence):
\* ((nonce_base + sequence) & (2^96 - 1)).to_bytes(12, "big")
NonceFor(nonce_base, sequence) == AddMask96(nonce_base, sequence)

\* AESGCMCipher(key, nonce_base).encrypt(payload, sequence)
CipherEncrypt(key, nonce_base, payload, sequence) ==
    LET cipher == NewCipher(key, nonce_base)
    IN  AeadEncrypt(cipher.key, NonceFor(cipher.nonce_base, sequence), payload)

\* decrypt under the nonce of sequence 0, whatever the sequence
CipherDecrypt_base(key, nonce_base, payload, sequence) ==
    LET cipher == NewCipher(key, nonce_base)
    IN  AeadDecrypt(cipher.key, NonceFor(cipher.nonce_base, 0), payload)

\* AESGCMCipher(key, nonce_base).decrypt(payload, sequence)
CipherDecrypt(key, nonce_base, payload, sequence) ==
    LET cipher == NewCipher(key, nonce_base)
    IN  AeadDecrypt(cipher.key, NonceFor(cipher.nonce_base, sequence), payload)

\* not session_id: None and "" are false
NoSession(a) == IsNone(a) \/ Val(a) = ""

\* a or b for two optional session ids
SessionOr(a, b) == IF ~NoSession(a) THEN a ELSE b

\* _decrypt_payload with the two session ids in the other order
DecryptPayload_pipelinefirst(record, data, registry) ==
    LET pipeline == record.pipeline
        session_id == SessionOr(pipeline.encryption.session_id,
                                record.handshake_session_id)
        metrics == [enabled |-> pipeline.encryption.enabled,
                    input_bytes |-> Len(data), session_id |-> session_id]
    IN  IF ~pipeline.encryption.enabled
        THEN [ok |-> TRUE, data |-> data,
              metrics |-> DictSet(metrics, "output_bytes", Len(data))]
        ELSE IF NoSession(session_id)
        THEN [ok |-> FALSE, exc |-> "RuntimeError",
              kind |-> "CRYPTO_SESSION_MISSING"]
        ELSE IF Val(session_id) \notin DOMAIN registry
        THEN [ok |-> FALSE, exc |-> "RuntimeError",
              kind |-> "CRYPTO_SESSION_NOT_FOUND"]
        ELSE LET handshake == registry[Val(session_id)]
                 r == CipherDecrypt(handshake.aes_key, handshake.nonce_base,
                                    data, 0)
             IN  IF ~r.ok THEN r
                 ELSE [ok |-> TRUE, data |-> r.data,
                       metrics |-> DictSet(metrics, "output_bytes",
                                           Len(r.data))]

\* _decrypt_payload(record, data) against the handshake registry
DecryptPayload(record, data, registry) ==
    LET pipeline == record.pipeline
        session_id == SessionOr(record.handshake_session_id,
                                pipeline.encryption.session_id)
        metrics == [enabled |-> pipeline.encryption.enabled,
                    input_bytes |-> Len(data), session_id |-> session_id]
    IN  IF ~pipeline.encryption.enabled
        THEN [ok |-> TRUE, data |-> data,
              metrics |-> DictSet(metrics, "output_bytes", Len(data))]
        ELSE IF NoSession(session_id)
        THEN [ok |-> FALSE, exc |-> "RuntimeError",
              kind |-> "CRYPTO_SESSION_MISSING"]
        ELSE IF Val(session_id) \notin DOMAIN registry
        THEN [ok |-> FALSE, exc |-> "RuntimeError",
              kind |-> "CRYPTO_SESSION_NOT_FOUND"]
        ELSE LET handshake == registry[Val(session_id)]
                 r == CipherDecrypt(handshake.aes_key, handshake.nonce_base,
                                    data, 0)
             IN  IF ~r.ok THEN r
                 ELSE [ok |-> TRUE, data |-> r.data,
                       metrics |-> DictSet(metrics, "output_bytes",
                                           Len(r.data))]

(***************************************************************************)
(* zlib, for the streams of the model: raw DEFLATE streams of stored       *)
(* blocks read by a decompressobj, and zlib.decompress of a gzip member.   *)
(***************************************************************************)
\* BTYPE of a block header byte: 0 stored, 1 and 2 Huffman, 3 invalid
DeflateBlockType(header) == (header \div 2) % 4

\* decompressobj(-MAX_WBITS).decompress(data) + flush(): a truncated stream
\* gives the bytes read so far, an invalid one raises zlib.error
RECURSIVE InflateRaw(_)
InflateRaw(data) ==
    IF data = <<>> THEN [ok |-> TRUE, data |-> <<>>]
    ELSE IF DeflateBlockType(data[1]) = 3
    THEN [ok |-> FALSE, exc |-> "zlib.error", kind |-> "UNMAPPED"]
    ELSE IF DeflateBlockType(data[1]) # 0
    THEN [ok |-> FALSE, exc |-> "none", kind |-> "HUFFMAN_BLOCK_NOT_MODELLED"]
    ELSE IF Len(data) < 5 THEN [ok |-> TRUE, data |-> <<>>]
    ELSE IF data[2] + data[4] # 255 \/ data[3] + data[5] # 255
    THEN [ok |-> FALSE, exc |-> "zlib.error", kind |-> "UNMAPPED"]
    ELSE LET len == data[2] + 256 * data[3]
             stored == SubSeq(data, 6, Min(5 + len, Len(data)))
         IN  IF data[1] % 2 = 1 \/ Len(data) < 5 + len
             THEN [ok |-> TRUE, data |-> stored]
             ELSE LET rest == InflateRaw(SubSeq(data, 6 + len, Len(data)))
                  IN  IF ~rest.ok THEN rest
                      ELSE [ok |-> TRUE, data |-> stored \o rest.data]

\* zlib.decompress(data, MAX_WBITS | 16): zlib.error unless data starts
\* with a whole gzip header (10 bytes, magic 1f 8b)
InflateGzip(data) ==
    IF Len(data) < 10 \/ data[1] # 31 \/ data[2] # 139
    THEN [ok |-> FALSE, exc |-> "zlib.error", kind |-> "UNMAPPED"]
    ELSE [ok |-> FALSE, exc |-> "none", kind |-> "GZIP_MEMBER_NOT_MODELLED"]

(***************************************************************************)
(* compression.py and the last stages of finish_upload                     *)
(***************************************************************************)
\* the values of CompressionAlgo
CompressionAlgos == {"deflate", "gzip"}

\* decompress_bytes(data, config)
DecompressBytes(data, enabled, algorithm) ==
    IF ~enabled
    THEN [ok |-> TRUE, data |-> data,
          metrics |-> [enabled |-> FALSE, algorithm |-> None,
                       input_bytes |-> Len(data), output_bytes |-> Len(data)]]
    ELSE LET r == IF algorithm = "gzip" THEN InflateGzip(data)
                                        ELSE InflateRaw(data)
         IN  IF ~r.ok THEN r
             ELSE [ok |-> TRUE, data |-> r.data,
                   metrics |-> [enabled |-> TRUE, algorithm |-> Some(algorithm),
                                input_bytes |-> Len(data),
                                output_bytes |-> Len(r.data)]]

\* _decompress_payload(record, data): RuntimeError for an algorithm name
\* that is not a CompressionAlgo, whether compression is enabled or not
DecompressPayload(record, data) ==
    LET compression == record.pipeline.compression
    IN  IF compression.algorithm \notin CompressionAlgos
        THEN [ok |-> FALSE, exc |-> "RuntimeError", kind |-> "UNMAPPED"]
        ELSE DecompressBytes(data, compression.enabled, compression.algorithm)

\* expected_original_int of finish_upload
ExpectedOriginal(meta) == ParseInt(DictGet(meta, "original_size"))

\* the size check never fails
SizeMismatch_never(expected, data) == FALSE

\* the size check fails for a short output only
SizeMismatch_short(expected, data) ==
    ~IsNone(expected) /\ Val(expected) > Len(data)

\* expected_original_int is not None and expected_original_int != len(data)
SizeMismatch(expected, data) ==
    ~IsNone(expected) /\ Val(expected) # Len(data)

\* a file name is the sequence of its characters
\* the characters re.sub(r"[^A-Za-z0-9._-]", "_", ...) keeps
SafeChars ==
    {"a", "b", "c", "d", "e", "f", "g", "h", "i", "j", "k", "l", "m",
     "n", "o", "p", "q", "r", "s", "t", "u", "v", "w", "x", "y", "z",
     "A", "B", "C", "D", "E", "F", "G", "H", "I", "J", "K", "L", "M",
     "N", "O", "P", "Q", "R", "S", "T", "U", "V", "W", "X", "Y", "Z",
     "0", "1", "2", "3", "4", "5", "6", "7", "8", "9", ".", "_", "-"}

\* the part of a path after its last separator
LastComponent(path, separators) ==
    LET at == {i \in 1..Len(path) : path[i] \in separators}
    IN  IF at = {} THEN path
        ELSE SubSeq(path, (CHOOSE i \in at : \A j \in at : j <= i) + 1,
                    Len(path))

\* ntpath.basename: a drive letter is split off, / and \ both separate
\* (UNC prefixes are not modelled)
NtBasename(path) ==
    LastComponent(IF Len(path) >= 2 /\ path[2] = ":"
                  THEN SubSeq(path, 3, Len(path)) ELSE path,
                  {"/", "\\"})

\* posixpath.basename
PosixBasename(path) == LastComponent(path, {"/"})

\* Path(candidate).name for a candidate without separators
PathName(candidate) == IF candidate = <<".">> THEN <<>> ELSE candidate

\* _sanitize_filename without the replacement of "", "." and ".."
SanitizeFilename_keepdots(filename) ==
    LET candidate == PosixBasename(NtBasename(filename))
    IN  AsSeq([i \in 1..Len(candidate) |->
                  IF candidate[i] \in SafeChars THEN candidate[i] ELSE "_"])

\* Storage._sanitize_filename(filename)
SanitizeFilename(filename) ==
    LET candidate == PathName(PosixBasename(NtBasename(filename)))
        named == IF candidate \in {<<>>, <<".">>, <<".", ".">>}
                 THEN <<"f", "i", "l", "e">> ELSE candidate
    IN  AsSeq([i \in 1..Len(named) |->
                  IF named[i] \in SafeChars THEN named[i] ELSE "_"])

\* root / "final" / f"{record.file_id}_{safe_name}"
FinalPath(record) ==
    <<"final", record.file_id, SanitizeFilename(record.filename)>>

\* the "final" stage metrics after Storage.complete_upload
FinalMetrics(record, data, expected_size) ==
    LET old == IF "final" \in DOMAIN record.stage_metrics
               THEN record.stage_metrics["final"] ELSE NoMetrics
        sized == DictSet(DictSet(old, "size_bytes", Len(data)),
                         "expected_size_bytes", expected_size)
    IN  IF ~IsNone(expected_size)
        THEN DictSet(sized, "matches_expected_size",
                     Len(data) = Val(expected_size))
        ELSE sized

\* the record after Storage.complete_upload(record, data, expected_size)
CompleteUpload(record, data, expected_size) ==
    [record EXCEPT !.final_path = Some(FinalPath(record)),
                   !.stage_metrics =
                       DictSet(@, "final",
                               FinalMetrics(record, data, expected_size))]

(***************************************************************************)
(* sse.py and the event loop.  SSEManager takes its lock in subscribe and  *)
(* in publish and releases it before the next await (the bodies under the  *)
(* lock only add to a set, call put_nowait and discard), so the lock is    *)
(* free whenever a coroutine reaches publish.                              *)
(***************************************************************************)
\* whether SSEManager._lock is held when a coroutine reaches publish
SSELockHeld == FALSE

\* the coroutine is suspended at every publish
PublishSuspends_always(held) == TRUE

\* await publish(...): `async with self._lock` suspends the coroutine only
\* if the lock is held; put_nowait never waits
PublishSuspends(held) == held

\* who runs after coroutine t has awaited a publish
AfterPublish(t) == IF PublishSuspends(SSELockHeld) THEN None ELSE Some(t)

\* a finish_upload frame that is not in use
IdleTask ==
    [pc |-> "idle", file_id |-> None, shards |-> <<>>, data |-> <<>>,
     snap |-> None, written |-> NoMetrics, outcome |-> None,
     failed_at |-> None]

\* the frame a new finish_upload call takes: the first idle one
FreeTask == IF tasks["t1"].pc = "idle" THEN "t1" ELSE "t2"

\* the state after the application is constructed: Storage(), NoiseEngine()
InitApp ==
    /\ uploads = [f \in {} |-> 0]
    /\ handshakes = [s \in {} |-> 0]
    /\ noise = NoiseConfig(0, 0, 0, 0)
    /\ tasks = [t \in Tasks |-> IdleTask]
    /\ running = None
    /\ disk = [path \in {} |-> 0]
    /\ init_reply = None

(***************************************************************************)
(* SpecHamming: a payload is encoded, up to two bits of the encoded stream *)
(* are flipped by the channel, and the stream is decoded.                  *)
(***************************************************************************)
\* every nibble value appears in both halves of some byte
NibbleTwins == {17 * x : x \in 0..15}

\* the bytes of the repository's Hamming tests: \xAF \x10 \xFF and \x7A
HammingTestBytes == {175, 16, 255, 122}

HammingInputs ==
    [1..1 -> NibbleTwins] \cup SeqsUpTo({122, 175}, MaxHammingLen)
        \cup {<<175, 16, 255>>}

HmIdle == [phase |-> "idle"]

RsIdle == [phase |-> "idle"]

CkIdle == [phase |-> "idle"]

NzIdle == [phase |-> "idle"]

CxIdle == [phase |-> "idle"]

FnIdle == [phase |-> "idle"]

IgIdle == [phase |-> "idle"]

SseIdle == [phase |-> "idle"]

InitHamming ==
    /\ hm \in {[phase |-> "input", original |-> b, encoded |-> <<>>,
                received |-> <<>>, flips |-> {}, result |-> [ok |-> FALSE]]
                 : b \in HammingInputs}
    /\ rs = RsIdle
    /\ ck = CkIdle
    /\ nz = NzIdle
    /\ cx = CxIdle
    /\ fn = FnIdle
    /\ ig = IgIdle
    /\ sse = SseIdle
    /\ InitApp

\* encoded = codec.encode(original)
HammingEncodeStep ==
    /\ hm.phase = "input"
    /\ hm' = [hm EXCEPT !.phase = "encoded",
                        !.encoded = HammingEncode(hm.original),
                        !.received = HammingEncode(hm.original)]
    /\ UNCHANGED <<rs, ck, nz, cx, fn, ig, sse, appvars>>

\* encoded[i] ^= 1 << bit, for a bit not flipped before (at most two flips)
HammingFlip ==
    /\ hm.phase = "encoded"
    /\ Cardinality(hm.flips) < 2
    /\ \E i \in 1..Len(hm.received), bit \in 0..7 :
          /\ <<i, bit>> \notin hm.flips
          /\ hm' = [hm EXCEPT !.received[i] = FlipBit(@, bit),
                              !.flips = @ \cup {<<i, bit>>}]
    /\ UNCHANGED <<rs, ck, nz, cx, fn, ig, sse, appvars>>

\* decoded, metrics = codec.decode(bytes(encoded))
HammingDecodeStep ==
    /\ hm.phase = "encoded"
    /\ hm' = [hm EXCEPT !.phase = "decoded",
                        !.result = HammingDecode(hm.received)]
    /\ UNCHANGED <<rs, ck, nz, cx, fn, ig, sse, appvars>>

NextHamming == HammingEncodeStep \/ HammingFlip \/ HammingDecodeStep

SpecHamming == InitHamming /\ [][NextHamming]_vars

\* the flipped positions all lie in the 7 codeword bits (bits 0..6) of a byte
FlipsInCodeword == \A f \in hm.flips : f[2] \in 0..6

\* C6: Hamming single-bit correction.  After one flipped bit among the 7
\* codeword bits of any byte of encode(b), decode returns exactly b and
\* reports corrected >= 1 and double_error = 0.
C6_SingleBitCorrected ==
    (hm.phase = "decoded" /\ Cardinality(hm.flips) = 1 /\ FlipsInCodeword)
        => /\ hm.result.ok
           /\ hm.result.data = hm.original
           /\ hm.result.metrics.corrected >= 1
           /\ hm.result.metrics.double_error = 0

\* C7: Hamming double-error detection.  After two distinct flipped bits
\* among the 7 codeword bits of one encoded byte, decode reports
\* double_error >= 1 and returns bytes different from the original.
C7_DoubleErrorDetected ==
    (/\ hm.phase = "decoded"
     /\ Cardinality(hm.flips) = 2
     /\ FlipsInCodeword
     /\ \A f, g \in hm.flips : f[1] = g[1])
        => /\ hm.result.ok
           /\ hm.result.metrics.double_error >= 1
           /\ hm.result.data # hm.original

(***************************************************************************)
(* SpecRS: a payload is encoded into n shards, any shards are lost, and    *)
(* the remaining shards are decoded.                                       *)
(***************************************************************************)
RSAlphabet == {0, 7, 201}

RSInputs == SeqsUpTo(RSAlphabet, MaxRSLen)

\* the (n, k) accepted by ReedSolomonConfig, up to MaxRSN shards
RSConfigs == {c \in (1..MaxRSN) \X (1..MaxRSN) : RSConfigValid(c[1], c[2])}

InitRS ==
    /\ rs \in {[phase |-> "input", n |-> c[1], k |-> c[2], original |-> b,
                shards |-> <<>>, received |-> <<>>, expected_len |-> None,
                result |-> [ok |-> FALSE]]
                 : c \in RSConfigs, b \in RSInputs}
    /\ hm = HmIdle
    /\ ck = CkIdle
    /\ nz = NzIdle
    /\ cx = CxIdle
    /\ fn = FnIdle
    /\ ig = IgIdle
    /\ sse = SseIdle
    /\ InitApp

\* shards, _ = codec.encode(original); shards_opt = list(shards)
RSEncodeStep ==
    /\ rs.phase = "input"
    /\ LET enc == RSEncode(rs.n, rs.k, rs.original)
       IN  rs' = [rs EXCEPT !.phase = "encoded",
                            !.shards = enc.shards,
                            !.received = [i \in 1..rs.n |-> Some(enc.shards[i])]]
    /\ UNCHANGED <<hm, ck, nz, cx, fn, ig, sse, appvars>>

\* shards_opt[idx] = None
RSLoseShard ==
    /\ rs.phase = "encoded"
    /\ \E idx \in 1..rs.n :
          /\ ~IsNone(rs.received[idx])
          /\ rs' = [rs EXCEPT !.received[idx] = None]
    /\ UNCHANGED <<hm, ck, nz, cx, fn, ig, sse, appvars>>

\* the expected_len arguments of the decode calls: none, the length of the
\* payload, and 0
RSExpectedLens(original) == {None, Some(Len(original)), Some(0)}

\* codec.decode(shards_opt, expected_len=len(original)) or codec.decode(shards_opt)
RSDecodeStep ==
    /\ rs.phase = "encoded"
    /\ \E el \in RSExpectedLens(rs.original) :
          rs' = [rs EXCEPT !.phase = "decoded",
                           !.expected_len = el,
                           !.result = RSDecode(rs.n, rs.k, rs.received, el)]
    /\ UNCHANGED <<hm, ck, nz, cx, fn, ig, sse, appvars>>

NextRS == RSEncodeStep \/ RSLoseShard \/ RSDecodeStep

SpecRS == InitRS /\ [][NextRS]_vars

\* the number of shards of the decoder's input that are null
RSLost == Cardinality(RSErasePos(rs.received))

\* C8: RS erasure recovery.  With at most n - k shards of encode(b) replaced
\* by null (none included), decode(shards, expected_len = |b|) returns
\* exactly b.
C8_ErasureRecovery ==
    (/\ rs.phase = "decoded"
     /\ rs.expected_len = Some(Len(rs.original))
     /\ RSLost <= rs.n - rs.k)
        => (rs.result.ok /\ rs.result.data = rs.original)

\* a decode that repaired n - k >= 2 lost shards, a data shard among them,
\* of a payload that fills more than one column
C8_Witness ==
    /\ rs.phase = "decoded"
    /\ rs.expected_len = Some(Len(rs.original))
    /\ rs.n - rs.k >= 2
    /\ RSLost = rs.n - rs.k
    /\ IsNone(rs.received[1])
    /\ Len(rs.original) > rs.k
    /\ rs.result.ok
    /\ rs.result.data = rs.original
    /\ rs.result.metrics.corrected >= 2

\* C9 as claimed: with at least n - k + 1 null shards, up to and including
\* all n, decode fails with UNRECOVERABLE and returns no data.
C9_Original ==
    (rs.phase = "decoded" /\ RSLost >= rs.n - rs.k + 1)
        => (~rs.result.ok /\ rs.result.kind = "UNRECOVERABLE")

\* C9 amended: with at least n - k + 1 but fewer than n null shards decode
\* fails with UNRECOVERABLE; with all n shards null it fails with
\* INPUT_MALFORMED (no shard to take the length from); either way no data
\* is returned.
C9_TooManyLosses ==
    (rs.phase = "decoded" /\ RSLost >= rs.n - rs.k + 1)
        => /\ ~rs.result.ok
           /\ rs.result.exc = "ValueError"
           /\ rs.result.kind = IF RSLost = rs.n THEN "INPUT_MALFORMED"
                                                ELSE "UNRECOVERABLE"

\* a decode refused as unrecoverable with exactly n - k + 1 shards lost
C9_Witness ==
    /\ rs.phase = "decoded"
    /\ RSLost = rs.n - rs.k + 1
    /\ RSLost < rs.n
    /\ ~rs.result.ok
    /\ rs.result.kind = "UNRECOVERABLE"

(***************************************************************************)
(* SpecChunk: build_chunk_envelopes cuts a payload into envelopes, which   *)
(* are added to a fresh ChunkAssembler in any order, repeats included.     *)
(***************************************************************************)
ChunkAlphabet == {48, 49}

ChunkInputs == SeqsUpTo(ChunkAlphabet, MaxChunkData)

InitChunk ==
    /\ ck \in {[data |-> d, chunk_size |-> cs,
                envelopes |-> BuildChunkEnvelopes("file123", d, cs),
                asm |-> NewAssembler("file123"), adds |-> 0]
                 : d \in ChunkInputs, cs \in 1..MaxChunkSize}
    /\ hm = HmIdle
    /\ rs = RsIdle
    /\ nz = NzIdle
    /\ cx = CxIdle
    /\ fn = FnIdle
    /\ ig = IgIdle
    /\ sse = SseIdle
    /\ InitApp

\* assembler.add(env) for one of the built envelopes
ChunkAdd ==
    /\ \E i \in 1..Len(ck.envelopes) :
          /\ ~AddRaises(ck.asm, ck.envelopes[i])
          /\ ck' = [ck EXCEPT !.asm = AssemblerAdd(ck.asm, ck.envelopes[i]),
                              !.adds = Min(@ + 1, Len(ck.envelopes) + 1)]
    /\ UNCHANGED <<hm, rs, nz, cx, fn, ig, sse, appvars>>

NextChunk == ChunkAdd

SpecChunk == InitChunk /\ [][NextChunk]_vars

\* every built envelope has been added at least once
ChunkAllFed ==
    \A i \in 1..Len(ck.envelopes) :
        \E j \in 1..Len(ck.asm.chunks) : ck.asm.chunks[j] = ck.envelopes[i]

\* ceil(|data| / chunk_size)
CeilDiv(a, b) == IF a % b = 0 THEN a \div b ELSE (a \div b) + 1

\* C10: assembler completeness.  After every envelope of
\* build_chunk_envelopes(id, data, chunk_size) has been added to a fresh
\* assembler, in any order and with repeats, has_all_data() is true,
\* missing_sequences() is [] and reassemble() is data; the number of
\* envelopes built is ceil(|data| / chunk_size), or 1 for empty data.
C10_AssemblerComplete ==
    /\ Len(ck.envelopes) = IF ck.data = <<>> THEN 1
                           ELSE CeilDiv(Len(ck.data), ck.chunk_size)
    /\ ChunkAllFed =>
          /\ HasAllData(ck.asm)
          /\ MissingSequences(ck.asm) = <<>>
          /\ Reassemble(ck.asm) = [ok |-> TRUE, data |-> ck.data]

\* three or more envelopes, fed out of order and with a repeat, reassembled
C10_Witness ==
    /\ Len(ck.envelopes) >= 3
    /\ ChunkAllFed
    /\ ck.adds > Len(ck.envelopes)
    /\ ck.asm.chunks[1].sequence # 0
    /\ Reassemble(ck.asm) = [ok |-> TRUE, data |-> ck.data]


(***************************************************************************)
(* SpecAsm: envelopes of any sequence, kind and total_chunks are added to  *)
(* one ChunkAssembler, among them envelopes of another upload, which add   *)
(* refuses.  ck also keeps what the calls were: the sequences of the data  *)
(* envelopes added and the last total_chunks that was not None.            *)
(***************************************************************************)
\* the most adds of one run
MaxAdds == 3

\* the envelopes given to add: total_chunks 0 is an upload of no chunks
AsmEnvelopes ==
    {ChunkEnvelope(id, seq, <<48>>, p, None, total, NoMeta) :
        id \in {"demo", "other"}, seq \in 0..2, p \in BOOLEAN,
        total \in {None, Some(0), Some(2), Some(3)}}

InitAsm ==
    /\ ck = [asm |-> NewAssembler("demo"), adds |-> 0, data_seqs |-> {},
             parity_seqs |-> {}, last_total |-> None, raised |-> FALSE]
    /\ hm = HmIdle
    /\ rs = RsIdle
    /\ nz = NzIdle
    /\ cx = CxIdle
    /\ fn = FnIdle
    /\ ig = IgIdle
    /\ sse = SseIdle
    /\ InitApp

\* assembler.add(envelope)
AsmAdd(envelope) ==
    /\ ck.adds < MaxAdds
    /\ IF AddRaises(ck.asm, envelope)
       THEN ck' = [ck EXCEPT !.adds = @ + 1, !.raised = TRUE]
       ELSE ck' = [ck EXCEPT
                      !.asm = AssemblerAdd(ck.asm, envelope),
                      !.adds = @ + 1,
                      !.raised = FALSE,
                      !.data_seqs = IF envelope.is_parity THEN @
                                    ELSE @ \cup {envelope.sequence},
                      !.parity_seqs = IF envelope.is_parity
                                      THEN @ \cup {envelope.sequence} ELSE @,
                      !.last_total = IF IsNone(envelope.total_chunks) THEN @
                                     ELSE envelope.total_chunks]
    /\ UNCHANGED <<hm, rs, nz, cx, fn, ig, sse, appvars>>

NextAsm == \E envelope \in AsmEnvelopes : AsmAdd(envelope)

SpecAsm == InitAsm /\ [][NextAsm]_vars

\* the elements of a list, and whether it is strictly ascending
Elements(list) == {list[i] : i \in 1..Len(list)}
Ascending(list) == \A i \in 1..(Len(list) - 1) : list[i] < list[i + 1]

\* C11: after any sequence of add calls, with expected = E the result of
\* missing_sequences() is the ascending list of {0..E-1} minus the sequences
\* of the data envelopes added (E being the last total_chunks given); the
\* parity envelopes added remove nothing from it, and with expected unset
\* the result is [].
C11_MissingSequences ==
    LET missing == MissingSequences(ck.asm)
    IN  /\ ck.asm.expected = ck.last_total
        /\ IF IsNone(ck.last_total) THEN missing = <<>>
           ELSE /\ Ascending(missing)
                /\ Elements(missing) =
                       (0..(Val(ck.last_total) - 1)) \ ck.data_seqs

\* a parity envelope was added under a sequence that is still missing,
\* while another sequence was filled by a data envelope
C11_Witness ==
    /\ ck.last_total = Some(3)
    /\ ck.parity_seqs \cap Elements(MissingSequences(ck.asm)) # {}
    /\ ck.data_seqs \cap (0..2) # {}
    /\ Len(MissingSequences(ck.asm)) = 2

(***************************************************************************)
(* SpecNoise: two NoiseEngine objects, each with its own random.Random,    *)
(* beside the generator of the random module.  An engine is configured and *)
(* seeded, then apply runs once on a list of envelopes; nz keeps, for each *)
(* run, the state its engine's generator was in, the configuration, the    *)
(* input and what apply returned.                                          *)
(***************************************************************************)
Engines == {"e1", "e2"}

\* the seeds given to engine.random.seed
Seeds == 0..(RngModulus - 1)

\* the configurations given to configure: a channel that only flips bits,
\* the one of test_noise (loss 0.2, duplicate 0.5, reorder 1.0, out of
\* range values added), and every probability at 50%
NoiseHarnessConfigs ==
    {NoiseConfig(0, 50, 0, 0), NoiseConfig(20, -10, 50, 150),
     NoiseConfig(50, 50, 50, 50)}

\* the packets of test_noise, with a payload of one byte
NoisePacket(i) == ChunkEnvelope("demo", i, <<65>>, FALSE, None, Some(2), NoMeta)

\* the lists given to apply
NoiseInputs == {<<>>, <<NoisePacket(0)>>, <<NoisePacket(0), NoisePacket(1)>>}

\* the generator an engine draws from: its own (self.random)
GeneratorOf_module(e) == "module"

GeneratorOf(e) == e

InitNoise ==
    /\ nz = [rngs |-> [g \in Engines \cup {"module"} |-> 0],
             engines |-> [e \in Engines |->
                             [config |-> NoiseConfig(0, 0, 0, 0),
                              run |-> None]]]
    /\ hm = HmIdle
    /\ rs = RsIdle
    /\ ck = CkIdle
    /\ cx = CxIdle
    /\ fn = FnIdle
    /\ ig = IgIdle
    /\ sse = SseIdle
    /\ InitApp

\* engine.random.seed(seed)
NoiseSeed(e, seed) ==
    /\ IsNone(nz.engines[e].run)
    /\ nz' = [nz EXCEPT !.rngs[e] = RngSeed(seed)]
    /\ UNCHANGED <<hm, rs, ck, cx, fn, ig, sse, appvars>>

\* engine.configure(cfg)
NoiseConfigure(e, cfg) ==
    /\ IsNone(nz.engines[e].run)
    /\ nz' = [nz EXCEPT !.engines[e].config = ClampConfig(cfg)]
    /\ UNCHANGED <<hm, rs, ck, cx, fn, ig, sse, appvars>>

\* mutated, stats = engine.apply(packets)
NoiseRun(e, packets) ==
    /\ IsNone(nz.engines[e].run)
    /\ LET g == GeneratorOf(e)
           cfg == nz.engines[e].config
           Record(out) ==
               [nz EXCEPT !.rngs[g] = out.state,
                          !.engines[e].run =
                              Some([seed |-> nz.rngs[e], config |-> cfg,
                                    input |-> packets,
                                    processed |-> out.processed,
                                    stats |-> out.stats])]
       IN  nz' = Record(NoiseEngineApply(cfg, packets, nz.rngs[g]))
    /\ UNCHANGED <<hm, rs, ck, cx, fn, ig, sse, appvars>>

NextNoise ==
    \/ \E e \in Engines, seed \in Seeds : NoiseSeed(e, seed)
    \/ \E e \in Engines, cfg \in NoiseHarnessConfigs : NoiseConfigure(e, cfg)
    \/ \E e \in Engines, packets \in NoiseInputs : NoiseRun(e, packets)

SpecNoise == InitNoise /\ [][NextNoise]_vars

\* the runs of apply that have returned
NoiseRuns == {Val(nz.engines[e].run) : e \in {x \in Engines : ~IsNone(nz.engines[x].run)}}

\* env with the payload left out
SansPayload(env) == [env EXCEPT !.payload = <<>>]

\* stats count the input, the output and the losses of a run
NoiseCounts(run) ==
    /\ run.stats.input = Len(run.input)
    /\ run.stats.output = Len(run.processed)
    /\ run.stats.output >= run.stats.input - run.stats.loss

\* the configuration of a run neither loses, duplicates nor reorders
NoiseKeepsAll(run) ==
    run.config.loss = 0 /\ run.config.duplicate = 0 /\ run.config.reorder = 0

\* C13 as stated: for every apply call, whatever the draws, stats.input is
\* the number of input envelopes, stats.output the length of the returned
\* list and output >= input - loss; with loss = duplicate = reorder = 0 the
\* returned list is the input list.
C13_Original ==
    \A run \in NoiseRuns :
        /\ NoiseCounts(run)
        /\ NoiseKeepsAll(run) => run.processed = run.input

\* C13, amended: as above, but with loss = duplicate = reorder = 0 the
\* returned list has the input envelopes in input order up to the payload
\* bits flipped under ber: the same length, each envelope equal to the
\* input envelope of its position in every field but the payload, the
\* payload of the same length, differing in as many bits as stats.bit_flips
\* counts, and equal when ber = 0.
C13_NoiseStats ==
    \A run \in NoiseRuns :
        /\ NoiseCounts(run)
        /\ NoiseKeepsAll(run) =>
              /\ Len(run.processed) = Len(run.input)
              /\ \A i \in 1..Len(run.input) :
                    /\ SansPayload(run.processed[i]) = SansPayload(run.input[i])
                    /\ Len(run.processed[i].payload) = Len(run.input[i].payload)
              /\ run.stats.bit_flips = 0 <=> run.processed = run.input
              /\ run.config.ber = 0 => run.processed = run.input

\* a run on two packets lost one and duplicated the other; another run
\* under a configuration that only flips bits returned both packets
C13_Witness ==
    /\ \E run \in NoiseRuns :
          /\ Len(run.input) = 2
          /\ run.stats.loss = 1
          /\ run.stats.duplicate = 1
    /\ \E run \in NoiseRuns :
          /\ NoiseKeepsAll(run)
          /\ Len(run.input) = 2
          /\ run.stats.bit_flips > 0

Init ==
    /\ hm = HmIdle
    /\ rs = RsIdle
    /\ ck = CkIdle
    /\ nz = NzIdle
    /\ cx = CxIdle
    /\ fn = FnIdle
    /\ ig = IgIdle
    /\ sse = SseIdle
    /\ InitApp

\* create_handshake: Storage.store_handshake(context)
CreateHandshake(s) ==
    /\ running = None
    /\ s \notin DOMAIN handshakes
    /\ handshakes' = DictSet(handshakes, s, HandshakeContext(s))
    /\ UNCHANGED <<harness, uploads, noise, tasks, running, disk, init_reply>>

\* configure_channel: NoiseEngine.configure(NoiseConfig(...))
ConfigureChannel(req) ==
    /\ running = None
    /\ noise' = ClampConfig(req)
    /\ UNCHANGED <<harness, uploads, handshakes, tasks, running, disk, init_reply>>

\* upload_init: a 400 for an encrypted pipeline without a session id, else
\* Storage.init_upload under a fresh file id and the init metrics
UploadInit(req, f) ==
    /\ running = None
    /\ IF InitRejected(req)
       THEN /\ init_reply' = Some([request |-> req, status |-> "http400"])
            /\ UNCHANGED uploads
       ELSE /\ f \notin DOMAIN uploads
            /\ uploads' = DictSet(uploads, f,
                                  SetStageMetrics(UploadRecord(f, req), "init",
                                                  InitMetrics(req)))
            /\ init_reply' = Some([request |-> req, status |-> "http200"])
    /\ UNCHANGED <<harness, handshakes, noise, tasks, running, disk>>

\* upload_chunk with one meta dict shared by all the records
UploadChunk_sharedmeta(req) ==
    /\ running = None
    /\ req.file_id \in DOMAIN uploads
    /\ \E out \in NoiseApply(noise, EnvelopeFromRequest(req)) :
          LET stored == StoreProcessed(uploads[req.file_id], out.processed)
          IN  uploads' = [f \in DOMAIN uploads |->
                             IF f = req.file_id THEN stored
                             ELSE [uploads[f] EXCEPT !.meta = stored.meta]]
    /\ UNCHANGED <<harness, handshakes, noise, tasks, running, disk, init_reply>>

\* upload_chunk: 404 for an unknown file id, else _apply_noise_and_store
\* (what the handler does after the store changes no state)
UploadChunk(req) ==
    /\ running = None
    /\ req.file_id \in DOMAIN uploads
    /\ \E out \in NoiseApply(noise, EnvelopeFromRequest(req)) :
          uploads' = [uploads EXCEPT
                         ![req.file_id] = StoreProcessed(@, out.processed)]
    /\ UNCHANGED <<harness, handshakes, noise, tasks, running, disk, init_reply>>

\* upload_parity: payload.is_parity = True, then upload_chunk
UploadParity(req) == UploadChunk([req EXCEPT !.is_parity = TRUE])

\* the frame of a finish_upload call that ends with an error
Failed(task, stage, outcome) ==
    [task EXCEPT !.pc = "failed", !.failed_at = Some(stage),
                 !.outcome = Some(outcome)]

\* finish_upload, up to the shard collection: 404 for an unknown file id,
\* 400 when _collect_shards returns an empty list
FinishCollect(f) ==
    /\ running = None
    /\ \E t \in Tasks : tasks[t].pc = "idle"
    /\ LET t == FreeTask
           call == [IdleTask EXCEPT !.file_id = Some(f)]
       IN  /\ running' = Some(t)
           /\ IF f \notin DOMAIN uploads
              THEN tasks' = [tasks EXCEPT ![t] = Failed(call, "lookup", "http404")]
              ELSE LET record == uploads[f]
                       shards == CollectShards(record)
                       began == [call EXCEPT !.snap = Some(record)]
                   IN  IF shards = <<>>
                       THEN tasks' = [tasks EXCEPT
                                ![t] = Failed(began, "collect", "http400")]
                       ELSE tasks' = [tasks EXCEPT
                                ![t] = [began EXCEPT !.pc = "fec",
                                                     !.shards = shards]]
    /\ UNCHANGED <<harness, uploads, handshakes, noise, disk, init_reply>>

\* the coroutine t can take its next step
Scheduled(t) == running = None \/ running = Some(t)

\* a stage of coroutine t succeeded: its metrics are recorded and published
StagePassed(t, stage, result, next) ==
    LET f == Val(tasks[t].file_id)
    IN  /\ uploads' = [uploads EXCEPT
                          ![f] = SetStageMetrics(@, stage, result.metrics)]
        /\ tasks' = [tasks EXCEPT
                        ![t] = [@ EXCEPT !.pc = next, !.data = result.data,
                                         !.written = DictSet(@, stage,
                                                             result.metrics)]]
        /\ running' = AfterPublish(t)

\* a stage of coroutine t raised: nothing is recorded
StageFailed(t, stage, outcome) ==
    /\ tasks' = [tasks EXCEPT ![t] = Failed(@, stage, outcome)]
    /\ running' = Some(t)
    /\ UNCHANGED uploads

\* finish_upload, FEC stage: a ValueError becomes a 400, any other
\* exception leaves the handler
FinishFec(t) ==
    /\ tasks[t].pc = "fec"
    /\ Scheduled(t)
    /\ LET Stage(r) ==
               IF r.ok THEN StagePassed(t, "fec", r, "decrypt")
               ELSE StageFailed(t, "fec", IF r.exc = "ValueError"
                                          THEN "http400" ELSE "unhandled")
       IN  Stage(FecStage(uploads[Val(tasks[t].file_id)], tasks[t].shards))
    /\ UNCHANGED <<harness, handshakes, noise, disk, init_reply>>

\* the decrypt stage with its metrics stored under "compression"
FinishDecrypt_mislabelled(t) ==
    /\ tasks[t].pc = "decrypt"
    /\ Scheduled(t)
    /\ LET r == DecryptPayload(uploads[Val(tasks[t].file_id)], tasks[t].data,
                               handshakes)
       IN  IF r.ok THEN StagePassed(t, "compression", r, "decompress")
           ELSE StageFailed(t, "encryption", "http400")
    /\ UNCHANGED <<harness, handshakes, noise, disk, init_reply>>

\* finish_upload, decrypt stage: every exception becomes a 400
FinishDecrypt(t) ==
    /\ tasks[t].pc = "decrypt"
    /\ Scheduled(t)
    /\ LET r == DecryptPayload(uploads[Val(tasks[t].file_id)], tasks[t].data,
                               handshakes)
       IN  IF r.ok THEN StagePassed(t, "encryption", r, "decompress")
           ELSE StageFailed(t, "encryption", "http400")
    /\ UNCHANGED <<harness, handshakes, noise, disk, init_reply>>

\* finish_upload, decompress stage: no except clause around it
FinishDecompress(t) ==
    /\ tasks[t].pc = "decompress"
    /\ Scheduled(t)
    /\ LET r == DecompressPayload(uploads[Val(tasks[t].file_id)], tasks[t].data)
       IN  IF r.ok THEN StagePassed(t, "compression", r, "persist")
           ELSE StageFailed(t, "compression", "unhandled")
    /\ UNCHANGED <<harness, handshakes, noise, disk, init_reply>>

\* finish_upload, size check and Storage.complete_upload
FinishPersist(t) ==
    /\ tasks[t].pc = "persist"
    /\ Scheduled(t)
    /\ LET f == Val(tasks[t].file_id)
           record == uploads[f]
           data == tasks[t].data
           expected == ExpectedOriginal(record.meta)
           done == CompleteUpload(record, data, expected)
       IN  IF SizeMismatch(expected, data)
           THEN /\ StageFailed(t, "final", "http400")
                /\ UNCHANGED disk
           ELSE /\ uploads' = [uploads EXCEPT ![f] = done]
                /\ disk' = DictSet(disk, FinalPath(record), data)
                /\ tasks' = [tasks EXCEPT
                       ![t] = [@ EXCEPT !.pc = "done",
                                        !.outcome = Some("http200"),
                                        !.written = DictSet(@, "final",
                                            done.stage_metrics["final"])]]
                /\ running' = AfterPublish(t)
    /\ UNCHANGED <<harness, handshakes, noise, init_reply>>

\* finish_upload returns or raises: the response goes out, the frame ends
FinishReturn(t) ==
    /\ tasks[t].pc \in {"failed", "done"}
    /\ Scheduled(t)
    /\ tasks' = [tasks EXCEPT ![t] = IdleTask]
    /\ running' = None
    /\ UNCHANGED <<harness, uploads, handshakes, noise, disk, init_reply>>

Next ==
    \/ \E s \in SessionIds : CreateHandshake(s)
    \/ \E req \in NoiseRequests : ConfigureChannel(req)
    \/ \E req \in AcceptedInitRequests, f \in FileIds : UploadInit(req, f)
    \/ \E req \in ChunkRequests : UploadChunk(req)
    \/ \E req \in ParityRequests : UploadParity(req)
    \/ \E f \in FileIds : FinishCollect(f)
    \/ \E t \in Tasks : FinishFec(t)
    \/ \E t \in Tasks : FinishDecrypt(t)
    \/ \E t \in Tasks : FinishDecompress(t)
    \/ \E t \in Tasks : FinishPersist(t)
    \/ \E t \in Tasks : FinishReturn(t)

Spec == Init /\ [][Next]_vars

(***************************************************************************)
(* SpecPair: the same handlers with two uploads open at once.  The clients *)
(* send init requests that upload_init refuses as well, one data chunk and *)
(* one parity chunk per upload, and finish either upload.                  *)
(***************************************************************************)
\* the file ids uuid4 gives to the two uploads
PairFileIds == {"f1", "f2"}

\* the init requests: the default pipeline, and an encrypted pipeline
\* without a session id, with an empty one and with one
PairInitRequests ==
    {r \in [filename : Filenames,
            pipeline : {PipelineSettings("off", 120, 100, FALSE, "deflate", e) :
                           e \in BOOLEAN},
            session_id : {None, Some(""), Some("s1")}] :
        ~IsNone(r.session_id) => r.pipeline.encryption.enabled}

\* the chunk requests: one data chunk, with or without an original_size
\* that its payload does not have
PairChunkRequests ==
    [file_id : PairFileIds, sequence : {0}, total_sequences : {1},
     payload : {<<1>>}, is_parity : {FALSE}, fec_index : {None},
     meta : {NoMeta, [key \in {"original_size"} |-> MetaInt(2)]}]

\* the requests sent to /parity
PairParityRequests ==
    [file_id : PairFileIds, sequence : {1}, total_sequences : {1},
     payload : {<<65>>}, is_parity : {FALSE}, fec_index : {None},
     meta : {NoMeta}]

NextPair ==
    \/ \E req \in PairInitRequests, f \in PairFileIds : UploadInit(req, f)
    \/ \E req \in PairChunkRequests : UploadChunk(req)
    \/ \E req \in PairParityRequests : UploadParity(req)
    \/ \E f \in PairFileIds : FinishCollect(f)
    \/ \E t \in Tasks : FinishFec(t)
    \/ \E t \in Tasks : FinishDecrypt(t)
    \/ \E t \in Tasks : FinishDecompress(t)
    \/ \E t \in Tasks : FinishPersist(t)
    \/ \E t \in Tasks : FinishReturn(t)

SpecPair == Init /\ [][NextPair]_vars

\* get_status(file_id) for a known file id
GetStatus(f) ==
    [file_id |-> f,
     missing |-> MissingSequences(uploads[f].assembler),
     ready |-> ~IsNone(uploads[f].final_path),
     stages |-> uploads[f].stage_metrics]

\* the frames of the finish_upload calls that found their upload
FinishCalls == {t \in Tasks : tasks[t].pc # "idle" /\ ~IsNone(tasks[t].snap)}

\* the upload a finish_upload call works on, now and when the call began
RecordOf(t) == uploads[Val(tasks[t].file_id)]
SnapOf(t) == Val(tasks[t].snap)

\* the final_path of upload f in a state given by its uploads registry
FinalPathIn(registry, f) ==
    IF f \in DOMAIN registry THEN registry[f].final_path ELSE None

\* the call of frame t has passed shard collection, FEC decode, decrypt and
\* decompress and stands before a size check that its output passes
PassedEveryStage(t) ==
    /\ tasks[t].pc = "persist"
    /\ tasks[t].shards # <<>>
    /\ {"fec", "encryption", "compression"} \subseteq DOMAIN tasks[t].written
    /\ LET size == DictGet(RecordOf(t).meta, "original_size")
       IN  \/ IsNone(size)
           \/ Val(size)[1] # "int"
           \/ Val(size)[2] = Len(tasks[t].data)

\* C1: final_path is set only after the whole receive pipeline succeeded.
\* Every step that changes the final_path of an upload is the persist step
\* of a finish call for that upload which has passed shard collection, FEC
\* decode, decrypt, decompress and the size check; no failed finish and no
\* init, chunk, parity or handshake step changes it.
C1_FinalPathOnlyAfterPipeline ==
    [][\A f \in FileIds :
          FinalPathIn(uploads', f) # FinalPathIn(uploads, f) =>
              \E t \in Tasks :
                  /\ tasks[t].file_id = Some(f)
                  /\ PassedEveryStage(t)
                  /\ tasks'[t].pc = "done"]_vars

\* a finish call has just persisted its upload
C1_Witness ==
    \E t \in FinishCalls :
        /\ tasks[t].pc = "done"
        /\ ~IsNone(RecordOf(t).final_path)
        /\ FinalPath(RecordOf(t)) \in DOMAIN disk

StageOrder == <<"fec", "encryption", "compression", "final">>

\* how many stages the call of frame t has passed
StagesPassed(t) ==
    LET at == IF tasks[t].pc = "failed" THEN Val(tasks[t].failed_at)
                                        ELSE tasks[t].pc
    IN  CASE at \in {"lookup", "collect", "fec"} -> 0
          [] at \in {"decrypt", "encryption"} -> 1
          [] at \in {"decompress", "compression"} -> 2
          [] at \in {"persist", "final"} -> 3
          [] at = "done" -> Len(StageOrder)

\* C4: every stage of finish that succeeds has its metrics in stage_metrics
\* before the next stage starts, in the order fec, encryption, compression,
\* final; when the call stands before stage S or has failed at S, status
\* shows this call's metrics for the stages before S, and for S and the
\* later stages what it showed before the call began.
C4_StageMetricsTrail ==
    \A t \in FinishCalls :
        LET stages == GetStatus(Val(tasks[t].file_id)).stages
        IN  \A i \in 1..Len(StageOrder) :
                LET s == StageOrder[i]
                IN  IF i <= StagesPassed(t)
                    THEN /\ s \in DOMAIN tasks[t].written
                         /\ DictGet(stages, s) = Some(tasks[t].written[s])
                    ELSE /\ s \notin DOMAIN tasks[t].written
                         /\ DictGet(stages, s) =
                                DictGet(SnapOf(t).stage_metrics, s)

\* a finish call failed at the decrypt stage on an upload that an earlier
\* finish had completed: this call's fec entry, the earlier call's others
C4_Witness ==
    \E t \in FinishCalls :
        /\ tasks[t].pc = "failed"
        /\ tasks[t].failed_at = Some("encryption")
        /\ "fec" \in DOMAIN tasks[t].written
        /\ "final" \in DOMAIN SnapOf(t).stage_metrics

\* the envelopes an assembler holds
StoredEnvelopes(asm) ==
    {asm.chunks[i] : i \in 1..Len(asm.chunks)}
        \cup {asm.parity[i] : i \in 1..Len(asm.parity)}

\* C5: upload metadata is first-writer-wins.  No step changes or removes
\* the value of a key that an upload's meta holds, and a key that a step
\* adds has the value carried by an envelope that this step stored (the
\* first emitted envelope with that key: an earlier one would have set it).
C5_MetaFirstWriterWins ==
    [][\A f \in DOMAIN uploads :
          /\ f \in DOMAIN uploads'
          /\ \A key \in DOMAIN uploads[f].meta :
                /\ key \in DOMAIN uploads'[f].meta
                /\ uploads'[f].meta[key] = uploads[f].meta[key]
          /\ \A key \in DOMAIN uploads'[f].meta \ DOMAIN uploads[f].meta :
                \E env \in StoredEnvelopes(uploads'[f].assembler)
                               \ StoredEnvelopes(uploads[f].assembler) :
                    /\ key \in DOMAIN env.metadata
                    /\ env.metadata[key] = uploads'[f].meta[key]]_vars

\* an upload stores an envelope whose metadata disagrees with its meta: a
\* later writer of the key did not win
C5_Witness ==
    \E f \in DOMAIN uploads :
        \E env \in StoredEnvelopes(uploads[f].assembler) :
            \E key \in DOMAIN env.metadata \cap DOMAIN uploads[f].meta :
                env.metadata[key] # uploads[f].meta[key]

\* C12: in every reachable state the data map and the parity map of an
\* upload's assembler have no key in common: no sequence number is a key
\* of both.
C12_DisjointKeys ==
    \A f \in DOMAIN uploads :
        DictKeys(uploads[f].assembler.chunks)
            \cap DictKeys(uploads[f].assembler.parity) = {}

\* the integer meta["original_size"] parses to, if it is there and parses
OriginalSize(record) ==
    LET size == DictGet(record.meta, "original_size")
    IN  IF ~IsNone(size) /\ Val(size)[1] = "int" THEN Some(Val(size)[2])
        ELSE None

\* C15: the size check.  When a finish call comes to the size check with a
\* meta["original_size"] that parses as an integer other than the length of
\* the decompressed output, the call fails there with a 400, no blob is
\* written, the stage metrics keep no entry of this check and final_path
\* stays as it was (unset, unless an earlier finish had set it); otherwise
\* the call persists the output, so that after a finish that succeeded
\* with a parseable original_size the blob under final_path has that length.
C15_SizeCheck ==
    [][\A t \in Tasks :
          (tasks[t].pc = "persist" /\ tasks'[t].pc # "persist") =>
              LET f == Val(tasks[t].file_id)
                  size == OriginalSize(uploads[f])
              IN  IF ~IsNone(size) /\ Val(size) # Len(tasks[t].data)
                  THEN /\ tasks'[t].pc = "failed"
                       /\ tasks'[t].failed_at = Some("final")
                       /\ tasks'[t].outcome = Some("http400")
                       /\ disk' = disk
                       /\ uploads'[f] = uploads[f]
                       /\ IsNone(SnapOf(t).final_path) =>
                              IsNone(uploads'[f].final_path)
                  ELSE /\ tasks'[t].pc = "done"
                       /\ ~IsNone(uploads'[f].final_path)
                       /\ Val(uploads'[f].final_path) \in DOMAIN disk'
                       /\ disk'[Val(uploads'[f].final_path)] = tasks[t].data
                       /\ ~IsNone(size) =>
                              Len(disk'[Val(uploads'[f].final_path)])
                                  = Val(size)]_vars

\* a first finish failed the size check on an output longer than
\* original_size: nothing is on disk and the upload has no final_path
C15_Witness ==
    \E t \in FinishCalls :
        /\ tasks[t].pc = "failed"
        /\ tasks[t].failed_at = Some("final")
        /\ OriginalSize(RecordOf(t)) = Some(1)
        /\ Len(tasks[t].data) = 2
        /\ IsNone(RecordOf(t).final_path)
        /\ DOMAIN disk = {}

\* the first i stages of StageOrder
FirstStages(i) == {StageOrder[j] : j \in 1..i}

\* C16: within an upload the stage metrics are recorded in the order init,
\* fec, encryption, compression, final.  A new record holds the init
\* metrics and no other; every step that records metrics afterwards is a
\* step of a finish call on a record that holds init, recording the stage
\* that follows, in this order, the stages this call has recorded so far
\* (fec first), whether the call is a first or a retried one; and no other
\* step changes the stage metrics of an upload.
C16_StageOrder ==
    [][/\ \A f \in DOMAIN uploads' \ DOMAIN uploads :
              DOMAIN uploads'[f].stage_metrics = {"init"}
       /\ \A t \in Tasks :
              (tasks'[t].pc # "idle" /\ tasks'[t].written # tasks[t].written)
                  => \E i \in 1..Len(StageOrder) :
                        /\ DOMAIN tasks[t].written = FirstStages(i - 1)
                        /\ DOMAIN tasks'[t].written = FirstStages(i)
                        /\ "init" \in DOMAIN RecordOf(t).stage_metrics
                        /\ uploads'[Val(tasks[t].file_id)]
                               .stage_metrics[StageOrder[i]]
                               = tasks'[t].written[StageOrder[i]]
       /\ \A f \in DOMAIN uploads :
              uploads'[f].stage_metrics # uploads[f].stage_metrics
                  => \E t \in Tasks :
                        /\ tasks[t].file_id = Some(f)
                        /\ tasks'[t].pc # "idle"
                        /\ tasks'[t].written # tasks[t].written]_vars

\* a retried finish, on an upload whose earlier finish had recorded every
\* stage, has recorded fec, encryption and compression anew
C16_Witness ==
    \E t \in FinishCalls :
        /\ tasks[t].pc = "persist"
        /\ DOMAIN tasks[t].written = FirstStages(3)
        /\ DOMAIN SnapOf(t).stage_metrics = {"init"} \cup FirstStages(4)
        /\ SnapOf(t).assembler # NewAssembler(Val(tasks[t].file_id))

\* C17: final_path of an upload is set exactly once.  Once it is set, no
\* step assigns it again or rewrites the blob it names: the path and the
\* bytes under it stay as they are and no finish call on that upload
\* comes to Storage.complete_upload again.
C17_FinalPathSetOnce ==
    [][\A f \in DOMAIN uploads :
          ~IsNone(uploads[f].final_path) =>
              /\ uploads'[f].final_path = uploads[f].final_path
              /\ disk'[Val(uploads[f].final_path)]
                     = disk[Val(uploads[f].final_path)]
              /\ \A t \in Tasks :
                     (tasks[t].file_id = Some(f) /\ tasks[t].pc = "persist")
                         => tasks'[t].pc # "done"]_vars

\* the responses the error taxonomy maps a failed finish to
MappedErrors == {"http404", "http400"}

\* C20: every finish call that fails ends with an error of the taxonomy,
\* mapped to HTTP 404 or 400: no failure of the FEC, decrypt or decompress
\* stage leaves the handler as an exception that is not mapped.
C20_FailuresMapped ==
    \A t \in Tasks :
        tasks[t].pc = "failed" => Val(tasks[t].outcome) \in MappedErrors

\* upload f is new or has changed in this step
Changed(f) == f \notin DOMAIN uploads \/ uploads'[f] # uploads[f]

\* C18: different upload records are independent.  A step that creates or
\* changes the record of upload A leaves every other record B as it was
\* (assembler, meta, stage_metrics, final_path) and the blob of B on disk
\* untouched, and no record disappears; the step is upload_init giving A, a
\* step of a finish call on A, or an ingest that stores envelopes of A in A.
C18_RecordsIndependent ==
    [][/\ DOMAIN uploads \subseteq DOMAIN uploads'
       /\ \A a \in DOMAIN uploads' :
              Changed(a) =>
                  /\ \A b \in DOMAIN uploads \ {a} :
                         /\ uploads'[b] = uploads[b]
                         /\ ~IsNone(uploads[b].final_path) =>
                                disk'[Val(uploads[b].final_path)]
                                    = disk[Val(uploads[b].final_path)]
                  /\ a \in DOMAIN uploads =>
                         \/ \E t \in Tasks : /\ tasks[t].file_id = Some(a)
                                              /\ tasks'[t] # tasks[t]
                         \/ /\ tasks' = tasks
                            /\ [uploads'[a] EXCEPT
                                    !.assembler = uploads[a].assembler,
                                    !.meta = uploads[a].meta] = uploads[a]
                            /\ \A env \in StoredEnvelopes(uploads'[a].assembler) :
                                   env.chunk_id = a]_vars

\* two uploads are open, each with its own chunk and metadata, and the
\* first has been finished while the second has not
C18_Witness ==
    /\ DOMAIN uploads = PairFileIds
    /\ ~IsNone(uploads["f1"].final_path)
    /\ IsNone(uploads["f2"].final_path)
    /\ uploads["f2"].assembler.chunks # <<>>
    /\ uploads["f1"].meta # uploads["f2"].meta

\* C19: upload_init with pipeline.encryption.enabled and no session_id
\* fails with a 400 and creates no UploadRecord.  The response to such a
\* request is a 400; a step of upload_init that answers 400 leaves the
\* registry of uploads as it was (no record, no init metrics), and no
\* record of an encrypted pipeline is without a session id.
C19_InitNeedsSession ==
    [][/\ ~IsNone(init_reply') =>
              LET call == Val(init_reply')
              IN  /\ (call.request.pipeline.encryption.enabled
                          /\ IsNone(call.request.session_id))
                         => call.status = "http400"
                  /\ (init_reply' # init_reply /\ call.status = "http400")
                         => uploads' = uploads
       /\ \A f \in DOMAIN uploads' :
              uploads'[f].pipeline.encryption.enabled
                  => ~IsNone(uploads'[f].handshake_session_id)]_vars

\* an init request with encryption enabled and no session id was refused
\* after an upload had been opened: the registry holds that upload alone
C19_Witness ==
    /\ ~IsNone(init_reply)
    /\ Val(init_reply).status = "http400"
    /\ Val(init_reply).request.pipeline.encryption.enabled
    /\ IsNone(Val(init_reply).request.session_id)
    /\ DOMAIN uploads = {"f1"}
    /\ DOMAIN uploads["f1"].stage_metrics = {"init"}

\* C21: a finish on an upload whose pipeline.compression.algorithm is
\* neither "deflate" nor "gzip" fails with a 400-class error of the taxonomy
\* and does not set final_path: such a call never persists, and when it
\* has failed its response is a mapped error.
C21_UnknownAlgorithm ==
    \A t \in FinishCalls :
        RecordOf(t).pipeline.compression.algorithm \notin CompressionAlgos =>
            /\ tasks[t].pc # "done"
            /\ IsNone(RecordOf(t).final_path)
            /\ tasks[t].pc = "failed" =>
                   Val(tasks[t].outcome) \in MappedErrors

\* C22: the decompress stage is an identity when compression is disabled.
\* For every upload with pipeline.compression.enabled = false, whatever
\* its algorithm field holds, the decompress step of a finish call passes,
\* hands on the output of the decrypt stage unchanged and records
\* compression metrics with output_bytes = input_bytes.
C22_DisabledIsIdentity ==
    [][\A t \in Tasks :
          (/\ tasks[t].pc = "decompress"
           /\ tasks'[t].pc # "decompress"
           /\ ~RecordOf(t).pipeline.compression.enabled) =>
              /\ tasks'[t].pc = "persist"
              /\ tasks'[t].data = tasks[t].data
              /\ "compression" \in DOMAIN tasks'[t].written
              /\ tasks'[t].written["compression"].input_bytes
                     = Len(tasks[t].data)
              /\ tasks'[t].written["compression"].output_bytes
                     = tasks'[t].written["compression"].input_bytes]_vars

(***************************************************************************)
(* SpecCipher: one AESGCMCipher encrypts a payload under a sequence, the    *)
(* channel may change one byte of the ciphertext, and the same cipher       *)
(* decrypts what arrives under a sequence.                                  *)
(***************************************************************************)
\* the keys of the harness
CipherKeys == {64, 7}

\* the nonce bases: 0, 255, 2^96 - 1, and 2^96 + 5 on thirteen bytes
CipherBases ==
    {ZeroNonce, [ZeroNonce EXCEPT ![NonceBytes] = 255],
     AsSeq([i \in 1..NonceBytes |-> 255]),
     <<1>> \o [ZeroNonce EXCEPT ![NonceBytes] = 5]}

\* the sequences given to encrypt and decrypt
CipherSequences == {0, 1, 256, -1}

\* the payloads given to encrypt
CipherPayloads == {<<>>, <<1>>, <<1, 65>>}

\* the changes of a byte: the bits XORed into it
ByteChanges == {1, 128, 255}

InitCipher ==
    /\ cx \in {[phase |-> "input", key |-> key, nonce_base |-> base,
                 payload |-> payload, sequence |-> sequence,
                 nonce |-> <<>>, ciphertext |-> <<>>, received |-> <<>>,
                 changed |-> FALSE, dec_sequence |-> 0, dec_nonce |-> <<>>,
                 result |-> [ok |-> FALSE]]
                  : key \in CipherKeys, base \in CipherBases,
                    payload \in CipherPayloads, sequence \in CipherSequences}
    /\ hm = HmIdle
    /\ rs = RsIdle
    /\ ck = CkIdle
    /\ nz = NzIdle
    /\ fn = FnIdle
    /\ ig = IgIdle
    /\ sse = SseIdle
    /\ InitApp

\* ciphertext = cipher.encrypt(payload, sequence)
CipherSend ==
    /\ cx.phase = "input"
    /\ LET ciphertext == CipherEncrypt(cx.key, cx.nonce_base, cx.payload,
                                       cx.sequence)
       IN  cx' = [cx EXCEPT !.phase = "sent",
                            !.nonce = NonceFor(NewCipher(cx.key,
                                                  cx.nonce_base).nonce_base,
                                               cx.sequence),
                            !.ciphertext = ciphertext,
                            !.received = ciphertext]
    /\ UNCHANGED <<hm, rs, ck, nz, fn, ig, sse, appvars>>

\* ciphertext[i] ^= change, once
CipherChange(i, change) ==
    /\ cx.phase = "sent"
    /\ ~cx.changed
    /\ i \in 1..Len(cx.received)
    /\ cx' = [cx EXCEPT !.received[i] = BitXor(@, change), !.changed = TRUE]
    /\ UNCHANGED <<hm, rs, ck, nz, fn, ig, sse, appvars>>

\* cipher.decrypt(received, sequence)
CipherReceive(sequence) ==
    /\ cx.phase = "sent"
    /\ cx' = [cx EXCEPT !.phase = "done",
                        !.dec_sequence = sequence,
                        !.dec_nonce = NonceFor(NewCipher(cx.key,
                                                  cx.nonce_base).nonce_base,
                                               sequence),
                        !.result = CipherDecrypt(cx.key, cx.nonce_base,
                                                 cx.received, sequence)]
    /\ UNCHANGED <<hm, rs, ck, nz, fn, ig, sse, appvars>>

NextCipher ==
    \/ CipherSend
    \/ \E i \in 1..3, change \in ByteChanges : CipherChange(i, change)
    \/ \E sequence \in CipherSequences : CipherReceive(sequence)

SpecCipher == InitCipher /\ [][NextCipher]_vars

\* C23: a ciphertext with one byte changed fails to decrypt under the
\* sequence it was encrypted with: the result is the authentication
\* failure CRYPTO_AUTH_FAILED and carries no plaintext; the unchanged
\* ciphertext decrypts to the payload under that sequence.
C23_TamperRejected ==
    (cx.phase = "done" /\ cx.dec_sequence = cx.sequence) =>
        IF cx.changed
        THEN /\ ~cx.result.ok
             /\ cx.result.kind = "CRYPTO_AUTH_FAILED"
             /\ "data" \notin DOMAIN cx.result
        ELSE /\ cx.result.ok
             /\ cx.result.data = cx.payload

\* a two-byte payload sent under sequence 1 with one byte changed
C23_Witness ==
    /\ cx.phase = "done"
    /\ cx.changed
    /\ cx.sequence = 1
    /\ cx.dec_sequence = 1
    /\ Len(cx.payload) = 2
    /\ ~cx.result.ok

\* value + 1 mod 2^96 on the bytes: the last byte below 255 goes up by
\* one and the bytes after it become 0; all bytes 255 gives 0
Inc96(value) ==
    IF \A i \in 1..Len(value) : value[i] = 255
    THEN AsSeq([i \in 1..Len(value) |-> 0])
    ELSE LET j == CHOOSE j \in 1..Len(value) :
                      /\ value[j] # 255
                      /\ \A i \in (j + 1)..Len(value) : value[i] = 255
         IN  AsSeq([i \in 1..Len(value) |->
                       IF i < j THEN value[i]
                       ELSE IF i = j THEN value[i] + 1 ELSE 0])

\* value - 1 mod 2^96 on the bytes
Dec96(value) ==
    IF \A i \in 1..Len(value) : value[i] = 0
    THEN AsSeq([i \in 1..Len(value) |-> 255])
    ELSE LET j == CHOOSE j \in 1..Len(value) :
                      /\ value[j] # 0
                      /\ \A i \in (j + 1)..Len(value) : value[i] = 0
         IN  AsSeq([i \in 1..Len(value) |->
                       IF i < j THEN value[i]
                       ELSE IF i = j THEN value[i] - 1 ELSE 255])

\* the twelve bytes of (value + steps) mod 2^96, counted one by one; 256
\* steps at once count the bytes above the last one up by one
RECURSIVE Counted96(_, _)
Counted96(value, steps) ==
    IF steps = 0 THEN value
    ELSE IF steps >= 256
    THEN Counted96(Append(Inc96(SubSeq(value, 1, Len(value) - 1)),
                          value[Len(value)]), steps - 256)
    ELSE IF steps > 0 THEN Inc96(Counted96(value, steps - 1))
    ELSE Dec96(Counted96(value, steps + 1))

\* the low twelve bytes of a value of twelve or thirteen bytes
Low96(value) == [i \in 1..NonceBytes |-> value[Len(value) - NonceBytes + i]]

\* C24: the nonce of a call with sequence s is the 12-byte big-endian
\* encoding of (nonce_base + s) mod 2^96: it has twelve bytes, it is the
\* base counted s times up (or down) with a wrap at 2^96, and two
\* different sequences under one base give two different nonces.
C24_NonceIsBasePlusSequence ==
    /\ cx.phase \in {"sent", "done"} =>
           /\ Len(cx.nonce) = NonceBytes
           /\ \A i \in 1..NonceBytes : cx.nonce[i] \in 0..255
           /\ cx.nonce = Counted96(AsSeq(Low96(cx.nonce_base)), cx.sequence)
    /\ (cx.phase = "done" /\ cx.dec_sequence # cx.sequence) =>
           cx.dec_nonce # cx.nonce

\* base 2^96 - 1 and sequence 1: the nonce wraps to 0
C24_Witness ==
    /\ cx.phase = "done"
    /\ \A i \in 1..NonceBytes : cx.nonce_base[i] = 255
    /\ cx.sequence = 1
    /\ cx.nonce = ZeroNonce
    /\ cx.dec_sequence = -1

\* C25: Hamming clean round trip.  encode(b) has 2 * |b| bytes, for each
\* byte the codeword of its high nibble and then the codeword of its low
\* nibble, and decode of the unchanged stream returns b with corrected = 0
\* and double_error = 0.
C25_CleanRoundTrip ==
    /\ hm.phase \in {"encoded", "decoded"} =>
           /\ Len(hm.encoded) = 2 * Len(hm.original)
           /\ \A i \in 1..Len(hm.original) :
                  /\ hm.encoded[2 * i - 1]
                         = EncodeNibble(hm.original[i] \div 16)
                  /\ hm.encoded[2 * i] = EncodeNibble(hm.original[i] % 16)
    /\ (hm.phase = "decoded" /\ hm.received = hm.encoded) =>
           /\ hm.result.ok
           /\ hm.result.data = hm.original
           /\ hm.result.metrics.corrected = 0
           /\ hm.result.metrics.double_error = 0

\* the three bytes of test_hamming_roundtrip_no_errors decoded unchanged
C25_Witness ==
    /\ hm.phase = "decoded"
    /\ hm.original = <<175, 16, 255>>
    /\ hm.received = hm.encoded
    /\ hm.result.ok
    /\ hm.result.data = <<175, 16, 255>>

\* encoded streams of odd length, of up to three bytes
OddStreams == {s \in SeqsUpTo({0, 105}, 3) : Len(s) % 2 = 1}

\* the stream the FEC stage of coroutine t decodes in hamming mode
HammingStream(t) ==
    IF IsNone(tasks[t].shards[1]) THEN <<>> ELSE Val(tasks[t].shards[1])

\* C26: HammingCodec.decode of a stream of odd length fails with
\* INPUT_MALFORMED and returns neither bytes nor metrics; a finish call on
\* a hamming upload whose stream has odd length ends at the FEC stage with
\* a 400, records no fec metrics and leaves the record as it was, its
\* final_path unset.
C26_OddLengthRejected ==
    [][/\ \A s \in OddStreams :
             /\ ~HammingDecode(s).ok
             /\ HammingDecode(s).kind = "INPUT_MALFORMED"
             /\ DOMAIN HammingDecode(s) \cap {"data", "metrics"} = {}
       /\ \A t \in Tasks :
             (/\ tasks[t].pc = "fec"
              /\ tasks'[t].pc # "fec"
              /\ RecordOf(t).pipeline.fec.mode = "hamming"
              /\ Len(HammingStream(t)) % 2 = 1) =>
                 /\ tasks'[t].pc = "failed"
                 /\ tasks'[t].failed_at = Some("fec")
                 /\ tasks'[t].outcome = Some("http400")
                 /\ "fec" \notin DOMAIN tasks'[t].written
                 /\ uploads' = uploads
                 /\ "fec" \notin DOMAIN RecordOf(t).stage_metrics
                 /\ IsNone(RecordOf(t).final_path)]_vars

\* a finish call on a hamming upload that holds one byte has failed at the
\* FEC stage
C26_Witness ==
    \E t \in Tasks :
        /\ tasks[t].pc = "failed"
        /\ tasks[t].failed_at = Some("fec")
        /\ tasks[t].outcome = Some("http400")
        /\ RecordOf(t).pipeline.fec.mode = "hamming"
        /\ Len(HammingStream(t)) = 1

(***************************************************************************)
(* SpecRSLen: as SpecRS, and the channel may cut or extend one shard by a  *)
(* byte before the shards are decoded.                                     *)
(***************************************************************************)
\* the configurations and payloads of the harness
RSLenConfigs == {<<2, 1>>, <<3, 1>>, <<3, 2>>}

RSLenInputs == {<<7>>, <<7, 201>>, <<0, 7, 201>>}

InitRSLen ==
    /\ rs \in {[phase |-> "input", n |-> c[1], k |-> c[2], original |-> b,
                 shards |-> <<>>, received |-> <<>>, expected_len |-> None,
                 result |-> [ok |-> FALSE]]
                  : c \in RSLenConfigs, b \in RSLenInputs}
    /\ hm = HmIdle
    /\ ck = CkIdle
    /\ nz = NzIdle
    /\ cx = CxIdle
    /\ fn = FnIdle
    /\ ig = IgIdle
    /\ sse = SseIdle
    /\ InitApp

\* the shards that arrived all have one length
RSSameLength ==
    \A i, j \in 1..Len(rs.received) :
        (~IsNone(rs.received[i]) /\ ~IsNone(rs.received[j])) =>
            Len(Val(rs.received[i])) = Len(Val(rs.received[j]))

\* no shard that arrived has changed its length
RSIntact ==
    \A i \in 1..Len(rs.received) :
        ~IsNone(rs.received[i]) =>
            Len(Val(rs.received[i])) = Len(rs.shards[i])

\* shards_opt[idx] = shards_opt[idx][:-1]
RSShortenShard ==
    /\ rs.phase = "encoded"
    /\ RSIntact
    /\ \E idx \in 1..rs.n :
          /\ ~IsNone(rs.received[idx])
          /\ rs' = [rs EXCEPT !.received[idx] =
                        Some(SubSeq(Val(@), 1, Len(Val(@)) - 1))]
    /\ UNCHANGED <<hm, ck, nz, cx, fn, ig, sse, appvars>>

\* shards_opt[idx] = shards_opt[idx] + bytes([extra])
RSExtendShard ==
    /\ rs.phase = "encoded"
    /\ RSIntact
    /\ \E idx \in 1..rs.n, extra \in {0, 7} :
          /\ ~IsNone(rs.received[idx])
          /\ rs' = [rs EXCEPT !.received[idx] = Some(Append(Val(@), extra))]
    /\ UNCHANGED <<hm, ck, nz, cx, fn, ig, sse, appvars>>

NextRSLen ==
    \/ RSEncodeStep
    \/ RSLoseShard
    \/ RSShortenShard
    \/ RSExtendShard
    \/ RSDecodeStep

SpecRSLen == InitRSLen /\ [][NextRSLen]_vars

\* C27: ReedSolomonCodec.decode fails with INPUT_MALFORMED whenever two
\* non-null shards of its input have different lengths, whether the other
\* shard is shorter or longer than the first non-null one.
C27_UnequalShardsRejected ==
    (rs.phase = "decoded" /\ ~RSSameLength) =>
        /\ ~rs.result.ok
        /\ rs.result.kind = "INPUT_MALFORMED"

(***************************************************************************)
(* SpecName: a file name goes through Storage._sanitize_filename, and the  *)
(* result goes through it again.                                           *)
(***************************************************************************)
\* the characters of the names: a letter, the dot, both separators, the
\* drive colon and a character outside the safe class
NameChars == {"a", ".", "/", "\\", ":", " "}

NameInputs == SeqsUpTo(NameChars, MaxNameLen)

InitName ==
    /\ fn \in {[phase |-> "input", name |-> x, once |-> <<>>, twice |-> <<>>]
                  : x \in NameInputs}
    /\ hm = HmIdle
    /\ rs = RsIdle
    /\ ck = CkIdle
    /\ nz = NzIdle
    /\ cx = CxIdle
    /\ ig = IgIdle
    /\ sse = SseIdle
    /\ InitApp

\* safe_name = self._sanitize_filename(record.filename)
NameSanitize ==
    /\ fn.phase = "input"
    /\ fn' = [fn EXCEPT !.phase = "once", !.once = SanitizeFilename(fn.name)]
    /\ UNCHANGED <<hm, rs, ck, nz, cx, ig, sse, appvars>>

\* self._sanitize_filename(safe_name)
NameSanitizeAgain ==
    /\ fn.phase = "once"
    /\ fn' = [fn EXCEPT !.phase = "twice", !.twice = SanitizeFilename(fn.once)]
    /\ UNCHANGED <<hm, rs, ck, nz, cx, ig, sse, appvars>>

NextName == NameSanitize \/ NameSanitizeAgain

SpecName == InitName /\ [][NextName]_vars

\* C29: filename sanitisation is idempotent and safe.  The sanitised name
\* is not empty, holds only characters of [A-Za-z0-9._-] (so no path
\* separator), is neither "." nor "..", and sanitising it again returns it
\* unchanged.
C29_SanitiseIdempotentSafe ==
    /\ fn.phase \in {"once", "twice"} =>
           /\ fn.once # <<>>
           /\ \A i \in 1..Len(fn.once) :
                  /\ fn.once[i] \in SafeChars
                  /\ fn.once[i] \notin {"/", "\\", ":", " "}
           /\ fn.once \notin {<<".">>, <<".", ".">>}
    /\ fn.phase = "twice" => fn.twice = fn.once

\* a name whose last component is "..", sanitised twice
C29_Witness ==
    /\ fn.phase = "twice"
    /\ fn.name = <<"a", "/", ".", ".">>
    /\ fn.once = <<"f", "i", "l", "e">>
    /\ fn.twice = fn.once

(***************************************************************************)
(* SpecIngest: chunk and parity requests arrive for one RS upload through  *)
(* a channel that may lose or duplicate them; the reply of each call is    *)
(* kept, and the shards can be collected as finish_upload does.            *)
(***************************************************************************)
\* the upload of the harness and a file id that no upload has
IngestFileId == "f1"

UnknownFileId == "f9"

\* the record of the harness: RS with two or three shards
IngestRecords ==
    {UploadRecord(IngestFileId,
                  [filename |-> <<"a">>, session_id |-> None,
                   pipeline |-> PipelineSettings("rs", n, 1, FALSE, "deflate",
                                                 FALSE)]) : n \in {2, 3}}

\* the channel: clean, losing and duplicating half of the envelopes, or
\* losing every envelope
IngestNoise ==
    {NoiseConfig(0, 0, 0, 0), NoiseConfig(50, 0, 50, 0),
     NoiseConfig(100, 0, 0, 0)}

\* the payload of a request tells its sequence and its kind
IngestPayload(sequence, is_parity) ==
    <<IF is_parity THEN 65 + sequence ELSE 1 + sequence>>

\* ChunkRequest: fec_index absent, a slot of the codec, or past every slot
IngestRequests ==
    {r \in [file_id : {IngestFileId, UnknownFileId}, sequence : {0, 1},
             total_sequences : {2}, payload : {<<1>>, <<2>>, <<65>>, <<66>>},
             is_parity : BOOLEAN, fec_index : {None, Some(1), Some(5)},
             meta : {NoMeta}] :
        /\ r.payload = IngestPayload(r.sequence, r.is_parity)
        /\ r.file_id = UnknownFileId =>
               (r.sequence = 0 /\ ~r.is_parity /\ IsNone(r.fec_index))}

InitIngest ==
    /\ ig \in {[record |-> record, cfg |-> cfg, calls |-> 0, reply |-> None,
                 shards |-> None]
                  : record \in IngestRecords, cfg \in IngestNoise}
    /\ hm = HmIdle
    /\ rs = RsIdle
    /\ ck = CkIdle
    /\ nz = NzIdle
    /\ cx = CxIdle
    /\ fn = FnIdle
    /\ sse = SseIdle
    /\ InitApp

\* upload_chunk(req): 404 for an unknown file id; else the envelope goes
\* through the noise engine and what comes out is stored; an exception of
\* assembler.add, or of the calls of assembler.data_count() and
\* assembler.parity_count() that follow the store, leaves the handler;
\* else the stats are returned
IngestChunk(req) ==
    /\ ig.calls < MaxIngest
    /\ IF req.file_id # ig.record.file_id
       THEN ig' = [ig EXCEPT !.calls = @ + 1, !.shards = None,
                             !.reply = Some([request |-> req,
                                             status |-> "http404",
                                             stats |-> None, stored |-> 0])]
       ELSE \E out \in NoiseApply(ig.cfg, EnvelopeFromRequest(req)) :
               IF \E i \in 1..Len(out.processed) :
                      AddRaises(ig.record.assembler, out.processed[i])
               THEN ig' = [ig EXCEPT !.calls = @ + 1, !.shards = None,
                                     !.reply = Some([request |-> req,
                                                     status |-> "unhandled",
                                                     stats |-> None,
                                                     stored |-> 0])]
               ELSE IF AssemblerLacks("data_count")
                         \/ AssemblerLacks("parity_count")
               THEN ig' = [ig EXCEPT
                              !.calls = @ + 1, !.shards = None,
                              !.record = StoreProcessed(@, out.processed),
                              !.reply = Some([request |-> req,
                                              status |-> "unhandled",
                                              stats |-> None,
                                              stored |-> Len(out.processed)])]
               ELSE ig' = [ig EXCEPT
                              !.calls = @ + 1, !.shards = None,
                              !.record = StoreProcessed(@, out.processed),
                              !.reply = Some([request |-> req,
                                              status |-> "http200",
                                              stats |-> Some(AggregateStats(out)),
                                              stored |-> Len(out.processed)])]
    /\ UNCHANGED <<hm, rs, ck, nz, cx, fn, sse, appvars>>

\* upload_parity(req): payload.is_parity = True, then upload_chunk
IngestParity(req) ==
    /\ ~req.is_parity
    /\ IngestChunk([req EXCEPT !.is_parity = TRUE])

\* shards = _collect_shards(record)
IngestCollect ==
    /\ IsNone(ig.shards)
    /\ ig' = [ig EXCEPT !.shards = Some(CollectShards(ig.record))]
    /\ UNCHANGED <<hm, rs, ck, nz, cx, fn, sse, appvars>>

NextIngest ==
    \/ \E req \in IngestRequests : IngestChunk(req)
    \/ \E req \in IngestRequests : IngestParity(req)
    \/ IngestCollect

SpecIngest == InitIngest /\ [][NextIngest]_vars

\* the dict of the assembler a request is stored in
TargetDict(record, request) ==
    IF request.is_parity THEN record.assembler.parity
                         ELSE record.assembler.chunks

\* C28: for a known file_id every chunk or parity call completes without
\* error and returns the noise stats {input, output, loss, bit_flips,
\* duplicate, reordered} with input = 1 and output the number of envelopes
\* the call stored in the assembler: none when the envelope was lost (the
\* assembler is as before), else one, or two with a duplicate, and the
\* assembler holds the envelope under its sequence.
C28_IngestReply ==
    [][(ig'.calls = ig.calls + 1
          /\ Val(ig'.reply).request.file_id = ig.record.file_id) =>
          LET reply == Val(ig'.reply)
              stats == Val(reply.stats)
          IN  /\ reply.status = "http200"
              /\ DOMAIN stats = {"input", "output", "loss", "bit_flips",
                                 "duplicate", "reordered"}
              /\ stats.input = 1
              /\ stats.output = reply.stored
              /\ stats.output = stats.input - stats.loss + stats.duplicate
              /\ stats.output = 0 => ig'.record = ig.record
              /\ stats.output > 0 =>
                     \E i \in 1..Len(TargetDict(ig'.record, reply.request)) :
                        LET env == TargetDict(ig'.record, reply.request)[i]
                        IN  /\ env.sequence = reply.request.sequence
                            /\ env.payload = reply.request.payload]_vars

\* the envelopes of a record in the order _collect_shards reads them:
\* the data dict, then the parity dict
CollectOrder(record) == record.assembler.chunks \o record.assembler.parity

\* the positions in that order of the envelopes that map to slot i
MapsTo(record, i) ==
    {j \in 1..Len(CollectOrder(record)) :
        LET env == CollectOrder(record)[j]
        IN  i = IF IsNone(env.fec_index) THEN env.sequence
                                         ELSE Val(env.fec_index)}

\* C30: the RS shard list collected at finish has exactly n slots; slot i
\* holds the payload of the last envelope that maps to it (by fec_index,
\* or by sequence when fec_index is absent), data envelopes coming before
\* parity envelopes, so that parity wins a collision; an envelope whose
\* index is outside 0..n-1 fills no slot, and a slot nothing maps to is
\* null.
C30_ShardSlots ==
    ~IsNone(ig.shards) =>
        LET shards == Val(ig.shards)
            n == ig.record.pipeline.fec.n
        IN  /\ Len(shards) = n
            /\ \A i \in 0..(n - 1) :
                   LET at == MapsTo(ig.record, i)
                   IN  shards[i + 1] =
                           IF at = {} THEN None
                           ELSE Some(CollectOrder(ig.record)[
                                    CHOOSE j \in at : \A m \in at : m <= j
                                ].payload)

\* slot 1 taken by a data envelope (sequence 1) and then by a parity
\* envelope with fec_index 1: the parity payload is in the slot
C30_Witness ==
    /\ ~IsNone(ig.shards)
    /\ \E i \in 1..Len(ig.record.assembler.chunks) :
          /\ ig.record.assembler.chunks[i].sequence = 1
          /\ IsNone(ig.record.assembler.chunks[i].fec_index)
    /\ \E i \in 1..Len(ig.record.assembler.parity) :
          /\ ig.record.assembler.parity[i].sequence = 0
          /\ ig.record.assembler.parity[i].fec_index = Some(1)
    /\ Val(ig.shards)[2] = Some(<<65>>)
    /\ IsNone(Val(ig.shards)[1])

(***************************************************************************)
(* SpecJoin: chunk and parity requests with free payloads arrive in any    *)
(* order for an upload whose FEC mode is off or hamming, and the shards    *)
(* are collected as finish_upload does.                                    *)
(***************************************************************************)
JoinRecords ==
    {UploadRecord(IngestFileId,
                  [filename |-> <<"a">>, session_id |-> None,
                   pipeline |-> PipelineSettings(mode, 120, 100, FALSE,
                                                 "deflate", FALSE)])
        : mode \in {"off", "hamming"}}

\* ChunkRequest: three sequences, two payloads, data or parity
JoinRequests ==
    [file_id : {IngestFileId}, sequence : {0, 1, 2}, total_sequences : {3},
     payload : {<<1>>, <<65>>}, is_parity : BOOLEAN, fec_index : {None},
     meta : {NoMeta}]

InitJoin ==
    /\ ig \in {[record |-> record, cfg |-> cfg, calls |-> 0, reply |-> None,
                 shards |-> None]
                  : record \in JoinRecords, cfg \in IngestNoise}
    /\ hm = HmIdle
    /\ rs = RsIdle
    /\ ck = CkIdle
    /\ nz = NzIdle
    /\ cx = CxIdle
    /\ fn = FnIdle
    /\ sse = SseIdle
    /\ InitApp

NextJoin ==
    \/ \E req \in JoinRequests : IngestChunk(req)
    \/ \E req \in JoinRequests : IngestParity(req)
    \/ IngestCollect

SpecJoin == InitJoin /\ [][NextJoin]_vars

\* the payload stored in a dict under a sequence, empty when there is none
PayloadAt(d, sequence) ==
    IF sequence \in DictKeys(d)
    THEN d[CHOOSE i \in 1..Len(d) : d[i].sequence = sequence].payload
    ELSE <<>>

\* C31: with fec.mode off or hamming the blob given to the FEC stage is
\* the concatenation of the payloads of the stored data envelopes in
\* ascending sequence order, whatever the order of their arrival; parity
\* envelopes contribute nothing (a parity call leaves the data envelopes
\* as they are), and for a sequence that arrived several times the payload
\* of the last stored envelope is the one used.
C31_JoinedBlob ==
    [][/\ ~IsNone(ig'.shards) =>
             LET chunks == ig'.record.assembler.chunks
                 blob == PayloadAt(chunks, 0) \o PayloadAt(chunks, 1)
                             \o PayloadAt(chunks, 2)
             IN  Val(ig'.shards) = IF chunks = <<>> THEN <<>>
                                   ELSE <<Some(blob)>>
       /\ ig'.calls = ig.calls + 1 =>
             LET request == Val(ig'.reply).request
                 before == ig.record.assembler.chunks
                 after == ig'.record.assembler.chunks
             IN  /\ \A q \in {0, 1, 2} \ {request.sequence} :
                        PayloadAt(after, q) = PayloadAt(before, q)
                 /\ (request.is_parity \/ Val(ig'.reply).stored = 0) =>
                        after = before
                 /\ (~request.is_parity /\ Val(ig'.reply).stored > 0) =>
                        PayloadAt(after, request.sequence) = request.payload
      ]_vars

\* sequence 1 arrived before sequence 0, sequence 1 arrived twice with
\* different payloads, and the blob holds sequence 0, then the later one
C31_Witness ==
    /\ ~IsNone(ig.shards)
    /\ Len(ig.record.assembler.chunks) = 2
    /\ ig.record.assembler.chunks[1].sequence = 1
    /\ ig.record.assembler.chunks[2].sequence = 0
    /\ ig.calls = 3
    /\ Val(ig.shards) = <<Some(<<1, 65>>)>>

\* no envelope, data or parity, was stored for the record
NothingStored(record) ==
    record.assembler.chunks = <<>> /\ record.assembler.parity = <<>>

DecryptSessionIds == {None, Some(""), Some("s1"), Some("s2")}

DecryptInitRequests ==
    {[filename |-> <<"a">>, session_id |-> top,
      pipeline |-> [PipelineSettings("off", 120, 100, FALSE, "deflate", TRUE)
                        EXCEPT !.encryption.session_id = inner]]
        : top \in DecryptSessionIds, inner \in DecryptSessionIds}

\* the requests to /chunk: payloads of one byte, the second of which is a
\* valid frame of the session "s1"
DecryptChunkRequests ==
    {r \in ChunkRequests : r.meta = NoMeta /\ ~r.is_parity}

InitDecrypt ==
    /\ hm = HmIdle
    /\ rs = RsIdle
    /\ ck = CkIdle
    /\ nz = NzIdle
    /\ cx = CxIdle
    /\ fn = FnIdle
    /\ ig = IgIdle
    /\ sse = SseIdle
    /\ \E req \in DecryptInitRequests :
           uploads = DictSet([f \in {} |-> 0], "f1",
                             SetStageMetrics(UploadRecord("f1", req), "init",
                                             InitMetrics(req)))
    /\ handshakes = [s \in {} |-> 0]
    /\ noise = NoiseConfig(0, 0, 0, 0)
    /\ tasks = [t \in Tasks |-> IdleTask]
    /\ running = None
    /\ disk = [path \in {} |-> 0]
    /\ init_reply = None

NextDecrypt ==
    \/ \E s \in SessionIds : CreateHandshake(s)
    \/ \E req \in DecryptChunkRequests : UploadChunk(req)
    \/ \E f \in FileIds : FinishCollect(f)
    \/ \E t \in Tasks : FinishFec(t)
    \/ \E t \in Tasks : FinishDecrypt(t)
    \/ \E t \in Tasks : FinishDecompress(t)
    \/ \E t \in Tasks : FinishPersist(t)
    \/ \E t \in Tasks : FinishReturn(t)

SpecDecrypt == InitDecrypt /\ [][NextDecrypt]_vars

\* the session id the claim names: record.handshake_session_id when it is
\* set, else pipeline.encryption.session_id
ResolvedSession(record) ==
    IF record.handshake_session_id \notin {None, Some("")}
    THEN record.handshake_session_id
    ELSE record.pipeline.encryption.session_id

\* C33: the decrypt stage of finish on an upload with encryption enabled
\* takes the session id from record.handshake_session_id, else from
\* pipeline.encryption.session_id.  When neither is set the stage fails
\* with CRYPTO_SESSION_MISSING, when the id is not in the handshake
\* registry with CRYPTO_SESSION_NOT_FOUND; in both cases finish ends with a
\* 400, the fec metrics are recorded already, no encryption metrics are
\* recorded and final_path stays unset.  With the id in the registry the
\* stage decrypts under that session and records it.
C33_SessionResolution ==
    [][\A t \in Tasks :
          (/\ tasks[t].pc = "decrypt"
           /\ tasks'[t].pc # "decrypt"
           /\ RecordOf(t).pipeline.encryption.enabled) =>
              LET record == RecordOf(t)
                  id == ResolvedSession(record)
                  result == DecryptPayload(record, tasks[t].data, handshakes)
                  unset == id \in {None, Some("")}
                  unknown == ~unset /\ Val(id) \notin DOMAIN handshakes
              IN  /\ unset => ~result.ok /\ result.kind = "CRYPTO_SESSION_MISSING"
                  /\ unknown =>
                        ~result.ok /\ result.kind = "CRYPTO_SESSION_NOT_FOUND"
                  /\ (unset \/ unknown) =>
                        /\ tasks'[t].pc = "failed"
                        /\ tasks'[t].failed_at = Some("encryption")
                        /\ tasks'[t].outcome = Some("http400")
                        /\ "fec" \in DOMAIN record.stage_metrics
                        /\ "fec" \in DOMAIN tasks'[t].written
                        /\ "encryption" \notin DOMAIN tasks'[t].written
                        /\ uploads' = uploads
                        /\ "encryption" \notin DOMAIN record.stage_metrics
                        /\ IsNone(record.final_path)
                  /\ (~unset /\ ~unknown) =>
                        LET plain == CipherDecrypt(handshakes[Val(id)].aes_key,
                                                   handshakes[Val(id)].nonce_base,
                                                   tasks[t].data, 0)
                        IN  IF plain.ok
                            THEN /\ tasks'[t].pc = "decompress"
                                 /\ tasks'[t].data = plain.data
                                 /\ RecordOf(t)'.stage_metrics["encryption"]
                                        .session_id = id
                            ELSE /\ tasks'[t].pc = "failed"
                                 /\ tasks'[t].outcome = Some("http400")
      ]_vars

\* a finish has failed for want of a session id on a record whose
\* handshake_session_id is empty and whose pipeline names none
C33_Witness ==
    \E t \in Tasks :
        /\ tasks[t].pc = "failed"
        /\ tasks[t].failed_at = Some("encryption")
        /\ RecordOf(t).handshake_session_id = Some("")
        /\ RecordOf(t).pipeline.encryption.session_id = None
        /\ "fec" \in DOMAIN RecordOf(t).stage_metrics

\* a finish has failed because the session the record names is not
\* registered, while the session the pipeline names is
C33_WitnessUnknown ==
    \E t \in Tasks :
        /\ tasks[t].pc = "failed"
        /\ tasks[t].failed_at = Some("encryption")
        /\ RecordOf(t).handshake_session_id = Some("s2")
        /\ RecordOf(t).pipeline.encryption.session_id = Some("s1")
        /\ "s1" \in DOMAIN handshakes

\* a finish took the session of the pipeline, the record naming none, and
\* went on to persist the blob
C33_WitnessFallback ==
    \E t \in Tasks :
        /\ tasks[t].pc = "done"
        /\ RecordOf(t).handshake_session_id = None
        /\ RecordOf(t).pipeline.encryption.session_id = Some("s1")

\* the bytes the decoder reassembles from the k data shards of encode(b):
\* b followed by the zero bytes that fill the last column
RSPadded(original, k, shard_len) ==
    AsSeq([i \in 1..(k * shard_len) |->
              IF i <= Len(original) THEN original[i] ELSE 0])

\* b without its trailing zero bytes: the prefix that ends with the last
\* byte of b that is not zero
WithoutTrailingZeros(b) ==
    LET nonzero == {i \in 1..Len(b) : b[i] # 0}
        last == IF nonzero = {} THEN 0
                ELSE CHOOSE i \in nonzero : \A j \in nonzero : j <= i
    IN  SubSeq(b, 1, last)

\* C34: a decode of the shards of encode(b), at most n - k of them lost,
\* returns the reassembled bytes cut to expected_len when an expected_len
\* is given, 0 included, and otherwise the reassembled bytes without
\* their trailing zero bytes, which is b without its trailing zero bytes.
C34_LengthPolicy ==
    (rs.phase = "decoded" /\ RSLost <= rs.n - rs.k) =>
        /\ rs.result.ok
        /\ LET full == RSPadded(rs.original, rs.k, Len(rs.shards[1]))
           IN  IF IsNone(rs.expected_len)
               THEN rs.result.data = WithoutTrailingZeros(rs.original)
               ELSE /\ Len(rs.result.data) = Min(Val(rs.expected_len), Len(full))
                    /\ rs.result.data = SubSeq(full, 1, Len(rs.result.data))

\* a decode with expected_len = 0 of a payload that is not empty, and one
\* without expected_len of a payload that ends with a zero byte
C34_Witness ==
    /\ rs.phase = "decoded"
    /\ rs.result.ok
    /\ rs.expected_len = Some(0)
    /\ rs.original # <<>>
    /\ rs.original[Len(rs.original)] # 0

\* a decode without expected_len returned less than the payload
C34_WitnessStripped ==
    /\ rs.phase = "decoded"
    /\ rs.result.ok
    /\ rs.expected_len = None
    /\ Len(rs.result.data) < Len(rs.original)
    /\ rs.result.data # <<>>

(***************************************************************************)
(* SpecFecInit: POST /upload with fec.mode = "rs" and n, k in 0..2, as the *)
(* request model validates it and upload_init handles it, then chunks and  *)
(* finish on the upload.                                                   *)
(***************************************************************************)
\* FECSettings: the pattern of mode and the validator "positive" of n and k
FECSettingsValid(fec) ==
    /\ fec.mode \in {"off", "hamming", "rs"}
    /\ ~(fec.n <= 0)
    /\ ~(fec.k <= 0)

FecInitRequests ==
    {[filename |-> <<"a">>, session_id |-> None,
      pipeline |-> PipelineSettings("rs", n, k, FALSE, "deflate", FALSE)]
        : n \in 0..2, k \in 0..2}

\* the requests to /chunk and /parity of an upload of two shards
FecChunkRequests == {r \in ChunkRequests : r.meta = NoMeta}

\* POST /upload: a request body that fails validation is answered with a
\* 422 before upload_init runs
PostUpload(req, f) ==
    IF FECSettingsValid(req.pipeline.fec)
    THEN UploadInit(req, f)
    ELSE /\ running = None
         /\ init_reply' = Some([request |-> req, status |-> "http422"])
         /\ UNCHANGED <<harness, uploads, handshakes, noise, tasks, running,
                        disk>>

NextFecInit ==
    \/ \E req \in FecInitRequests, f \in FileIds : PostUpload(req, f)
    \/ \E req \in FecChunkRequests : UploadChunk(req)
    \/ \E req \in FecChunkRequests : UploadParity(req)
    \/ \E f \in FileIds : FinishCollect(f)
    \/ \E t \in Tasks : FinishFec(t)
    \/ \E t \in Tasks : FinishDecrypt(t)
    \/ \E t \in Tasks : FinishDecompress(t)
    \/ \E t \in Tasks : FinishPersist(t)
    \/ \E t \in Tasks : FinishReturn(t)

SpecFecInit == Init /\ [][NextFecInit]_vars

\* C35: an upload with fec.mode = "rs" exists only with n > k > 0: an init
\* request with mode rs and n <= k is refused and creates no upload record.
C35_RsNeedsNAboveK ==
    /\ \A f \in DOMAIN uploads :
          uploads[f].pipeline.fec.mode = "rs" =>
              /\ uploads[f].pipeline.fec.n > uploads[f].pipeline.fec.k
              /\ uploads[f].pipeline.fec.k > 0
    /\ (/\ ~IsNone(init_reply)
        /\ Val(init_reply).request.pipeline.fec.mode = "rs"
        /\ Val(init_reply).request.pipeline.fec.n
               <= Val(init_reply).request.pipeline.fec.k) =>
            Val(init_reply).status # "http200"

\* what holds of the code: an RS upload has positive n and k, and a finish
\* call on one with n <= k ends with a 400 at the FEC stage, whatever was
\* stored
C35_RejectedAtFinish ==
    /\ \A f \in DOMAIN uploads :
          uploads[f].pipeline.fec.n > 0 /\ uploads[f].pipeline.fec.k > 0
    /\ \A t \in Tasks :
          (/\ tasks[t].pc \in {"decrypt", "decompress", "persist", "done"}
           /\ RecordOf(t).pipeline.fec.mode = "rs") =>
              RecordOf(t).pipeline.fec.n > RecordOf(t).pipeline.fec.k

\* an upload with n = 1, k = 2 holds both its envelopes and a finish call
\* on it has failed at the FEC stage
C35_Witness ==
    \E t \in Tasks :
        /\ tasks[t].pc = "failed"
        /\ tasks[t].failed_at = Some("fec")
        /\ RecordOf(t).pipeline.fec.n = 1
        /\ RecordOf(t).pipeline.fec.k = 2
        /\ RecordOf(t).assembler.chunks # <<>>

\* C36: after any sequence of add calls with expected set, has_all_data()
\* is true if and only if missing_sequences() is empty, so reassemble()
\* returns bytes only when no sequence of 0..expected-1 is missing.
C36_CompleteIffNoneMissing ==
    ~IsNone(ck.asm.expected) =>
        /\ HasAllData(ck.asm) <=> MissingSequences(ck.asm) = <<>>
        /\ Reassemble(ck.asm).ok => MissingSequences(ck.asm) = <<>>

\* what holds of the code: with no sequence missing has_all_data() is
\* true, and has_all_data() is true exactly when at least expected data
\* envelopes of distinct sequences are held, inside 0..expected-1 or not
C36_CountsEnvelopes ==
    ~IsNone(ck.asm.expected) =>
        /\ MissingSequences(ck.asm) = <<>> => HasAllData(ck.asm)
        /\ HasAllData(ck.asm) <=>
               Cardinality(ck.data_seqs) >= Val(ck.asm.expected)
        /\ Reassemble(ck.asm).ok <=> HasAllData(ck.asm)

\* two data envelopes, sequences 0 and 2, of an upload of two chunks:
\* sequence 1 is missing and reassemble() returns bytes
C36_Witness ==
    /\ ck.asm.expected = Some(2)
    /\ ck.data_seqs = {0, 2}
    /\ MissingSequences(ck.asm) = <<1>>
    /\ Reassemble(ck.asm).ok

\* C37: with fec.mode off or hamming, finish never succeeds (persists no
\* blob, sets no final_path) while missing_sequences() of the upload's
\* assembler is not empty.
C37_NoSuccessWhileMissing ==
    /\ \A t \in Tasks :
          (/\ tasks[t].pc = "done"
           /\ RecordOf(t).pipeline.fec.mode \in {"off", "hamming"}) =>
              MissingSequences(RecordOf(t).assembler) = <<>>
    /\ \A f \in DOMAIN uploads :
          (/\ uploads[f].pipeline.fec.mode \in {"off", "hamming"}
           /\ ~IsNone(uploads[f].final_path)) =>
              MissingSequences(uploads[f].assembler) = <<>>

\* a finish call has persisted the blob of an upload without FEC that
\* holds sequence 0 of two and carries no original_size
C37_Witness ==
    \E t \in Tasks :
        /\ tasks[t].pc = "done"
        /\ RecordOf(t).pipeline.fec.mode = "off"
        /\ MissingSequences(RecordOf(t).assembler) = <<1>>
        /\ FinalPath(RecordOf(t)) \in DOMAIN disk
        /\ RecordOf(t).meta = NoMeta

(***************************************************************************)
(* SpecDeliver: a client cuts a payload with build_chunk_envelopes, opens  *)
(* an upload with the default pipeline, sends the envelopes to /chunk in   *)
(* any order, repeats included, and calls finish, on a channel without     *)
(* noise.                                                                  *)
(***************************************************************************)
\* longest payload the client sends
MaxDeliverLen == 3

\* the payloads: "A", "AB", "ABC", .. and the empty one
DeliverInputs ==
    {AsSeq([i \in 1..len |-> 64 + i]) : len \in 0..MaxDeliverLen}

DeliverChunkSizes == {1, 2}

\* the init request of the client: FEC off, no compression, no encryption
DeliverInitRequest ==
    [filename |-> <<"a">>, session_id |-> None,
     pipeline |-> PipelineSettings("off", 120, 100, FALSE, "deflate", FALSE)]

\* the ChunkRequest that carries an envelope
RequestFromEnvelope(envelope) ==
    [file_id |-> envelope.chunk_id, sequence |-> envelope.sequence,
     total_sequences |-> Val(envelope.total_chunks),
     payload |-> envelope.payload, is_parity |-> envelope.is_parity,
     fec_index |-> envelope.fec_index, meta |-> envelope.metadata]

InitDeliver ==
    /\ ck \in {[data |-> d, chunk_size |-> cs,
                 envelopes |-> BuildChunkEnvelopes("f1", d, cs), sent |-> {}]
                  : d \in DeliverInputs, cs \in DeliverChunkSizes}
    /\ hm = HmIdle
    /\ rs = RsIdle
    /\ nz = NzIdle
    /\ cx = CxIdle
    /\ fn = FnIdle
    /\ ig = IgIdle
    /\ sse = SseIdle
    /\ InitApp

\* POST /chunk with envelope i: upload_chunk for a known file id
DeliverChunk(i) ==
    /\ running = None
    /\ "f1" \in DOMAIN uploads
    /\ LET req == RequestFromEnvelope(ck.envelopes[i])
       IN  \E out \in NoiseApply(noise, EnvelopeFromRequest(req)) :
              uploads' = [uploads EXCEPT
                             ![req.file_id] = StoreProcessed(@, out.processed)]
    /\ ck' = [ck EXCEPT !.sent = @ \cup {i}]
    /\ UNCHANGED <<hm, rs, nz, cx, fn, ig, sse, handshakes, noise, tasks,
                   running, disk, init_reply>>

NextDeliver ==
    \/ UploadInit(DeliverInitRequest, "f1")
    \/ \E i \in 1..Len(ck.envelopes) : DeliverChunk(i)
    \/ FinishCollect("f1")
    \/ \E t \in Tasks : FinishFec(t)
    \/ \E t \in Tasks : FinishDecrypt(t)
    \/ \E t \in Tasks : FinishDecompress(t)
    \/ \E t \in Tasks : FinishPersist(t)
    \/ \E t \in Tasks : FinishReturn(t)

SpecDeliver == InitDeliver /\ [][NextDeliver]_vars

\* every envelope of the payload was sent at least once
AllSent == ck.sent = 1..Len(ck.envelopes)

\* C38: on a channel without noise, with FEC off and compression and
\* encryption disabled, once every envelope of build_chunk_envelopes(
\* file_id, data, chunk_size) was ingested, in any order and any number of
\* times, status reports missing = [], no finish call fails, and a finish
\* call that has ended left ready = true and a persisted blob equal to
\* data.
C38_CleanDelivery ==
    AllSent =>
        /\ GetStatus("f1").missing = <<>>
        /\ \A t \in Tasks :
              /\ tasks[t].pc # "failed"
              /\ tasks[t].pc = "done" =>
                    /\ tasks[t].outcome = Some("http200")
                    /\ GetStatus("f1").ready
                    /\ uploads["f1"].final_path = Some(FinalPath(uploads["f1"]))
                    /\ disk[FinalPath(uploads["f1"])] = ck.data

\* three envelopes arrived last first, one of them twice, and the finish
\* call has persisted the payload
C38_Witness ==
    /\ AllSent
    /\ Len(ck.envelopes) = 3
    /\ \A i \in 1..3 : uploads["f1"].assembler.chunks[i].sequence = 3 - i
    /\ \E t \in Tasks : tasks[t].pc = "done"
    /\ disk[FinalPath(uploads["f1"])] = <<65, 66, 67>>

\* the call that just ended was for the record's file id
KnownIngest ==
    /\ ig'.calls = ig.calls + 1
    /\ Val(ig'.reply).request.file_id = ig.record.file_id

\* C39: when the noise engine drops the envelope of a chunk or parity call
\* (nothing comes out of it), the call leaves the assembler (data, parity,
\* expected) and meta of the upload unchanged and returns stats with
\* loss = 1 and output = 0; with loss = 1 no envelope is ever stored and
\* with loss = 0 none is ever dropped.
C39_DroppedEnvelope ==
    [][KnownIngest =>
          LET reply == Val(ig'.reply)
          IN  /\ reply.stored = 0 =>
                    /\ ig'.record.assembler = ig.record.assembler
                    /\ ig'.record.meta = ig.record.meta
                    /\ reply.status = "http200"
                    /\ Val(reply.stats).loss = 1
                    /\ Val(reply.stats).output = 0
              /\ ig.cfg.loss = 100 => reply.stored = 0
              /\ ig.cfg.loss = 0 => reply.stored > 0]_vars

\* what holds of the code: the state half of C39, and the call ends in
\* the AttributeError of C28, dropped envelope or not
C39_DropLeavesState ==
    [][KnownIngest =>
          LET reply == Val(ig'.reply)
          IN  /\ reply.stored = 0 => ig'.record = ig.record
              /\ ig.cfg.loss = 100 => reply.stored = 0
              /\ ig.cfg.loss = 0 => reply.stored > 0
              /\ reply.status = "unhandled"
              /\ IsNone(reply.stats)]_vars

\* every call of a run on the channel that loses everything is over and
\* the assembler is as new
C39_Witness ==
    /\ ig.cfg.loss = 100
    /\ ig.calls = MaxIngest
    /\ ig.record.assembler = NewAssembler(IngestFileId)
    /\ Val(ig.reply).stored = 0

(***************************************************************************)
(* sse.py.  SpecSse: one SSEManager.  Clients subscribe (a queue of        *)
(* queue_size slots each), handlers publish events, each client's          *)
(* generator takes messages off its queue at its own pace, and clients     *)
(* disconnect.  The bodies under the manager's lock never wait, so each    *)
(* call is one step.                                                       *)
(***************************************************************************)
\* most events published in one run
MaxEvents == 3

\* the clients that may subscribe
SseClients == {"a", "b"}

\* the queue_size the manager is built with (settings.sse_queue_size)
QueueSizes == {0, 1, 2}

\* the event labels the handlers publish
EventLabels == {"chunk", "image_ready"}

\* SSEManager._format_event(event, data), the JSON body standing for data
FormatEvent(event, body) == <<"event: ", event, "\ndata: ", body, "\n\n">>

\* asyncio.Queue(maxsize).full(): a queue with maxsize <= 0 is never full
QueueFull(queue, maxsize) ==
    IF maxsize <= 0 THEN FALSE ELSE Len(queue) >= maxsize

InitSse ==
    /\ sse \in {[queue_size |-> size,
                  status |-> [c \in SseClients |-> "new"],
                  subscribers |-> {},
                  queues |-> [c \in SseClients |-> <<>>],
                  got |-> [c \in SseClients |-> <<>>],
                  log |-> <<>>] : size \in QueueSizes}
    /\ hm = HmIdle
    /\ rs = RsIdle
    /\ ck = CkIdle
    /\ nz = NzIdle
    /\ cx = CxIdle
    /\ fn = FnIdle
    /\ ig = IgIdle
    /\ InitApp

\* subscribe(), up to the first await queue.get(): a new queue joins
\* self._subscribers
SseSubscribe(c) ==
    /\ sse.status[c] = "new"
    /\ sse' = [sse EXCEPT !.status[c] = "open",
                          !.queues[c] = <<>>,
                          !.subscribers = @ \cup {c}]
    /\ UNCHANGED <<hm, rs, ck, nz, cx, fn, ig, appvars>>

\* msg = await queue.get(); yield msg
SseConsume(c) ==
    /\ sse.status[c] = "open"
    /\ sse.queues[c] # <<>>
    /\ sse' = [sse EXCEPT !.got[c] = Append(@, Head(sse.queues[c])),
                          !.queues[c] = Tail(@)]
    /\ UNCHANGED <<hm, rs, ck, nz, cx, fn, ig, appvars>>

\* the client disconnects: the generator is closed and its finally block
\* discards the queue
SseDisconnect(c) ==
    /\ sse.status[c] = "open"
    /\ sse' = [sse EXCEPT !.status[c] = "closed",
                          !.subscribers = @ \ {c}]
    /\ UNCHANGED <<hm, rs, ck, nz, cx, fn, ig, appvars>>

\* publish that leaves the subscribers with a full queue in the set
SsePublish_keepdead(event) ==
    /\ Len(sse.log) < MaxEvents
    /\ LET payload == FormatEvent(event, Len(sse.log) + 1)
           dead == {c \in sse.subscribers :
                       QueueFull(sse.queues[c], sse.queue_size)}
       IN  sse' = [sse EXCEPT
                      !.queues = [c \in SseClients |->
                                     IF c \in sse.subscribers \ dead
                                     THEN Append(sse.queues[c], payload)
                                     ELSE sse.queues[c]],
                      !.log = Append(@, [payload |-> payload,
                                         registered |-> sse.subscribers])]
    /\ UNCHANGED <<hm, rs, ck, nz, cx, fn, ig, appvars>>

\* publish(event, data): put_nowait on the queue of every subscriber; the
\* subscribers whose queue is full are discarded
SsePublish(event) ==
    /\ Len(sse.log) < MaxEvents
    /\ LET payload == FormatEvent(event, Len(sse.log) + 1)
           dead == {c \in sse.subscribers :
                       QueueFull(sse.queues[c], sse.queue_size)}
       IN  sse' = [sse EXCEPT
                      !.queues = [c \in SseClients |->
                                     IF c \in sse.subscribers \ dead
                                     THEN Append(sse.queues[c], payload)
                                     ELSE sse.queues[c]],
                      !.subscribers = @ \ dead,
                      !.log = Append(@, [payload |-> payload,
                                         registered |-> sse.subscribers])]
    /\ UNCHANGED <<hm, rs, ck, nz, cx, fn, ig, appvars>>

NextSse ==
    \/ \E c \in SseClients : SseSubscribe(c)
    \/ \E c \in SseClients : SseConsume(c)
    \/ \E c \in SseClients : SseDisconnect(c)
    \/ \E event \in EventLabels : SsePublish(event)

SpecSse == InitSse /\ [][NextSse]_vars

\* the payloads of the events published while c was in the subscriber set
RECURSIVE PublishedTo(_, _)
PublishedTo(log, c) ==
    IF log = <<>> THEN <<>>
    ELSE IF c \in Head(log).registered
    THEN <<Head(log).payload>> \o PublishedTo(Tail(log), c)
    ELSE PublishedTo(Tail(log), c)

\* what client c was given so far: what its generator yielded, then what
\* waits in its queue
Received(state, c) == state.got[c] \o state.queues[c]

\* a publish call goes through whatever the queues hold
PublishNotBlocked ==
    (sse # SseIdle /\ Len(sse.log) < MaxEvents) =>
        ENABLED (\E event \in EventLabels : SsePublish(event))

\* a removed subscriber is offered nothing more, and a subscriber that is
\* still registered has received each event published since it subscribed
\* once and in publish order
OfferedInOrder ==
    /\ \A c \in SseClients :
          (sse.status[c] = "open" /\ c \notin sse.subscribers) =>
              Received(sse', c) = Received(sse, c)
    /\ \A c \in sse'.subscribers :
          Received(sse', c) = PublishedTo(sse'.log, c)

\* C40: publish never blocks on a slow subscriber: a subscriber whose
\* queue holds queue_size undelivered messages when an event is published
\* is removed from the subscriber set and is offered no later event, while
\* every subscriber that stays registered receives each published event
\* exactly once and in publish order.
C40_SlowSubscriber ==
    /\ []PublishNotBlocked
    /\ [][sse # SseIdle =>
            /\ Len(sse'.log) = Len(sse.log) + 1 =>
                  \A c \in sse.subscribers :
                      Len(sse.queues[c]) = sse.queue_size =>
                          c \notin sse'.subscribers
            /\ OfferedInOrder]_vars

\* C40 as it holds: the same, for a manager built with queue_size >= 1;
\* with queue_size <= 0 the queues are unbounded and publish removes no
\* subscriber.
C40_SlowSubscriberBounded ==
    /\ []PublishNotBlocked
    /\ [][sse # SseIdle =>
            /\ Len(sse'.log) = Len(sse.log) + 1 =>
                  \A c \in sse.subscribers :
                      IF sse.queue_size >= 1
                      THEN Len(sse.queues[c]) = sse.queue_size =>
                               /\ c \notin sse'.subscribers
                               /\ sse'.queues[c] = sse.queues[c]
                      ELSE c \in sse'.subscribers
            /\ OfferedInOrder]_vars

\* with queue_size 1, client a was removed for its full queue and was given
\* the first event only, while client b is registered and took all three
C40_Witness ==
    /\ sse # SseIdle
    /\ sse.queue_size = 1
    /\ sse.status["a"] = "open"
    /\ "a" \notin sse.subscribers
    /\ Len(Received(sse, "a")) = 1
    /\ "b" \in sse.subscribers
    /\ Len(sse.got["b"]) = MaxEvents

=============================================================================
